---- MODULE Spec2Model ----
(***************************************************************************)
(* Model of the credential rotation, rate governance, thinking extractor   *)
(* and credential write-back of kiro2api.                                  *)
(*                                                                         *)
(* Time is an integer clock `now`; a time.Duration is an integer number of *)
(* clock ticks.  The zero time.Time is ZeroTime, which lies before every   *)
(* clock reading.  Strings are sequences of one-character strings.         *)
(***************************************************************************)
EXTENDS Integers, Sequences, FiniteSets, TLC

(***************************************************************************)
(* Bounds of the model.                                                    *)
(***************************************************************************)
MaxTime == 6
MaxRequests == 4
MaxConcRequests == 2
MaxFailures == 1
MaxFailCount == 5
MaxRotatingRequests == 2
MaxPieces == 3
MaxBlocks == 3
MaxResets == 1
MaxWriteBackTime == 8
MaxWriteBackRequests == 3
MaxUpstreamRequests == 2
MaxUserCalls == 5
MaxSourceEntries == 1
MaxFileEntries == 2
MaxContentLen == 2
MaxDailyRequests == 4

(***************************************************************************)
(* Configuration (config/tuning.go).  Every value is read from the         *)
(* environment at start-up; the model runs the settings below, in ticks.   *)
(***************************************************************************)
TokenCacheTTL == 3
minTokenInterval == 2
maxTokenInterval == 3
globalMinInterval == 1
ConsecutiveUseCaps == {2, 10}
cooldownDuration == 3
backoffBase == 2
backoffMax == 5
backoffMultiplier == 2
dailyMaxRequests == 3
jitterPercent == 60
suspendedCooldown == 6
DayLength == 4

\* The width of a time.Duration, a signed integer of nanoseconds (64 bits in
\* the code, scaled like the durations above).
DurationBits == 6

\* UserTokenCache.maxSize, 100 in the source, scaled.
maxSize == 2

ZeroTime == -1
NoKey == <<>>

Min(a, b) == IF a < b THEN a ELSE b

RECURSIVE Pow(_, _)
Pow(b, e) == IF e <= 0 THEN 1 ELSE b * Pow(b, e - 1)

(***************************************************************************)
(* Keys.  The TokenManager keys a credential by its index                  *)
(* (fmt.Sprintf(config.TokenCacheKeyFormat, i)); the quota probe keys it   *)
(* by "token_" followed by the first 20 characters of the access token.    *)
(***************************************************************************)
DigitChar == <<"0", "1", "2", "3", "4", "5", "6", "7", "8", "9">>

RECURSIVE Itoa(_)
Itoa(n) == IF n < 10 THEN <<DigitChar[n + 1]>>
           ELSE Itoa(n \div 10) \o <<DigitChar[(n % 10) + 1]>>

TokenCacheKeyFormat == <<"t", "o", "k", "e", "n", "_">>

CacheKey(i) == TokenCacheKeyFormat \o Itoa(i)

Repeat(c, n) == [j \in 1..n |-> c]

\* The access token the identity service returns for credential i: an
\* opaque string of more than 20 characters.
AccessTokenOf(i) == <<"a", "o", "a">> \o Itoa(i) \o Repeat("A", 20)

ProbeKeyOf(accessToken) ==
    <<"t", "o", "k", "e", "n", "_">> \o SubSeq(accessToken, 1, 20)

\* len(tm.configs)
NumConfigs == 2
ConfigIdx == 0..(NumConfigs - 1)
generateConfigOrder == [n \in 1..NumConfigs |-> CacheKey(n - 1)]

VARIABLES
    now,                \* the clock
    tokenStates,        \* RateLimiter.tokenStates: key -> TokenState
    globalLastRequest,  \* RateLimiter.globalLastRequest
    maxConsecutiveUse,  \* RateLimiter.maxConsecutiveUse
    currentIndex,       \* TokenManager.currentIndex (0-based)
    cache,              \* TokenManager.cache.tokens: key -> CachedToken
    lastRefresh,        \* TokenManager.lastRefresh
    pc,                 \* position of every request task
    held,               \* per task: selected key, CachedToken object, wake-up time
    served,             \* history: key and instant of every RecordRequest, in order
    hist,               \* history: counters and flags of the run
    lastUpdate,         \* history: instant of the last direct RateLimiter update
    ctx,                \* a ThinkingStreamContext
    io,                 \* the stream fed to ctx and what it has returned so far
    configs,            \* TokenManager.configs: the refresh secret of every credential
    fs,                 \* the file system: the credential file, its .tmp sibling, inodes
    writers,            \* the PersistCredentials goroutines started so far
    written,            \* history: every content a write-back has marshalled
    updates,            \* history: every UpdateToken call made on the managed store
    fingerprints,       \* FingerprintManager.fingerprints: key -> Fingerprint
    callers,            \* the goroutines calling GetFingerprint: position, key, result
    userCache,          \* UserTokenCache: cache, order, and the calls made so far
    users,              \* the goroutines calling GetOrRefresh: position, key, exists
    sources,            \* the managed store and KIRO_AUTH_TOKEN before loadConfigs
    loaded,             \* what loadConfigs returned
    extraction,         \* a call of ExtractThinkingContent: its input and its results
    mutexes,            \* tm.mutex, rl.mutex, fm.mutex: the writer and the readers holding each
    goroutines          \* the goroutines of the lock study: the path each runs, its position

(***************************************************************************)
(* RateLimiter (auth/rate_limiter.go).  Every operator takes the map ts    *)
(* and the clock reading t and returns the map after the call.             *)
(***************************************************************************)
Truncate(t, d) == t - (t % d)

NewTokenState(t) ==
    [LastRequest |-> ZeroTime, RequestCount |-> 0, CooldownEnd |-> ZeroTime,
     FailCount |-> 0, DailyRequests |-> 0,
     DailyResetTime |-> Truncate(t, DayLength) + DayLength,
     IsSuspended |-> FALSE, SuspendedAt |-> ZeroTime, SuspendReason |-> ""]

Put(ts, k, st) == (k :> st) @@ ts

getOrCreateState(ts, k, t) ==
    LET ts1 == IF k \in DOMAIN ts THEN ts ELSE Put(ts, k, NewTokenState(t))
        st == ts1[k]
    IN  IF t > st.DailyResetTime
        THEN Put(ts1, k, [st EXCEPT !.DailyRequests = 0,
                                    !.DailyResetTime = Truncate(t, DayLength) + DayLength])
        ELSE ts1

\* The values randomIntervalWithJitter can return: a base interval drawn from
\* [minTokenInterval, maxTokenInterval) plus a jitter below jitterPercent% of it.
randomIntervalWithJitter ==
    UNION { { base + jitter :
                jitter \in { j \in 0..base :
                               \/ j = 0
                               \/ jitterPercent > 0 /\ j * 100 < base * jitterPercent } } :
            base \in minTokenInterval..(maxTokenInterval - 1) }

\* WaitForToken with the global wait only.
WaitForGlobalOnly(ts, glr, k, t, requiredInterval) ==
    IF glr # ZeroTime /\ t - glr < globalMinInterval
    THEN globalMinInterval - (t - glr) ELSE 0

\* WaitForToken: the wait computed under the lock, for a sampled interval.
WaitFor(ts, glr, k, t, requiredInterval) ==
    LET globalWait == IF glr # ZeroTime /\ t - glr < globalMinInterval
                      THEN globalMinInterval - (t - glr) ELSE 0
        st == getOrCreateState(ts, k, t)[k]
        tokenWait == IF st.LastRequest # ZeroTime /\ t - st.LastRequest < requiredInterval
                     THEN requiredInterval - (t - st.LastRequest) ELSE 0
    IN  IF tokenWait > globalWait THEN tokenWait ELSE globalWait

RecordRequest(ts, k, t) ==
    LET ts1 == getOrCreateState(ts, k, t)
    IN  Put(ts1, k, [ts1[k] EXCEPT !.LastRequest = t,
                                   !.RequestCount = @ + 1,
                                   !.DailyRequests = @ + 1])

ShouldRotate(ts, k, t) ==
    getOrCreateState(ts, k, t)[k].RequestCount >= maxConsecutiveUse

ResetTokenCount(ts, k, t) ==
    LET ts1 == getOrCreateState(ts, k, t)
    IN  Put(ts1, k, [ts1[k] EXCEPT !.RequestCount = 0])

\* The values calculateBackoff(failCount) can return.  The product is formed
\* in float64 and converted with time.Duration(...): a product outside the
\* range of a Duration converts to an implementation-dependent value (the
\* least Duration on amd64, the greatest on arm64); the jitter is a fraction
\* below 0.2 of the converted value, truncated towards zero; backoff += jitter
\* wraps.
calculateBackoff(failCount) ==
    IF failCount <= 0 THEN {cooldownDuration}
    ELSE LET MinDuration == -Pow(2, DurationBits - 1)
             MaxDuration == Pow(2, DurationBits - 1) - 1
             Wrap(x) == ((x - MinDuration) % Pow(2, DurationBits)) + MinDuration
             product == backoffBase * Pow(backoffMultiplier, failCount - 1)
             converted == IF product <= MaxDuration THEN {product}
                          ELSE {MinDuration, MaxDuration}
             Jitters(backoff) ==
                 IF backoff >= 0
                 THEN { j \in 0..backoff : j = 0 \/ j * 5 < backoff }
                 ELSE { j \in backoff..0 : j = 0 \/ j * 5 > backoff }
         IN  UNION { { Min(Wrap(backoff + jitter), backoffMax) :
                         jitter \in Jitters(backoff) } :
                     backoff \in converted }

MarkTokenCooldown(ts, k, t, backoffDuration) ==
    LET ts1 == getOrCreateState(ts, k, t)
    IN  Put(ts1, k, [ts1[k] EXCEPT !.FailCount = @ + 1,
                                   !.CooldownEnd = t + backoffDuration,
                                   !.RequestCount = 0])

\* The fail count calculateBackoff is called with inside MarkTokenCooldown.
NextFailCount(ts, k, t) == getOrCreateState(ts, k, t)[k].FailCount + 1

MarkTokenSuspended(ts, k, t, reason) ==
    LET ts1 == getOrCreateState(ts, k, t)
    IN  Put(ts1, k, [ts1[k] EXCEPT !.IsSuspended = TRUE,
                                   !.SuspendedAt = t,
                                   !.SuspendReason = reason,
                                   !.CooldownEnd = t + suspendedCooldown,
                                   !.RequestCount = 0])

IsTokenSuspendedResult(ts, k, t) ==
    /\ k \in DOMAIN ts
    /\ ts[k].IsSuspended
    /\ ~(t > ts[k].CooldownEnd)

IsTokenSuspendedState(ts, k, t) ==
    IF k \in DOMAIN ts /\ ts[k].IsSuspended /\ t > ts[k].CooldownEnd
    THEN Put(ts, k, [ts[k] EXCEPT !.IsSuspended = FALSE, !.SuspendReason = ""])
    ELSE ts

IsTokenInCooldownResult(ts, k, t) ==
    /\ k \in DOMAIN ts
    /\ \/ ts[k].IsSuspended /\ t < ts[k].CooldownEnd
       \/ t < ts[k].CooldownEnd

IsTokenInCooldownState(ts, k, t) ==
    IF k \in DOMAIN ts /\ ~IsTokenInCooldownResult(ts, k, t)
    THEN Put(ts, k, [ts[k] EXCEPT !.FailCount = 0,
                                  !.IsSuspended = FALSE,
                                  !.SuspendReason = IF ts[k].IsSuspended THEN "" ELSE @])
    ELSE ts

IsDailyLimitExceededResult(ts, k, t) ==
    IF dailyMaxRequests <= 0 THEN FALSE
    ELSE getOrCreateState(ts, k, t)[k].DailyRequests >= dailyMaxRequests

IsDailyLimitExceededState(ts, k, t) ==
    IF dailyMaxRequests <= 0 THEN ts ELSE getOrCreateState(ts, k, t)

RecordSuccess(ts, k, t) ==
    LET ts1 == getOrCreateState(ts, k, t)
    IN  Put(ts1, k, [ts1[k] EXCEPT !.FailCount = 0])

(***************************************************************************)
(* TokenManager (auth/token_manager.go).                                   *)
(***************************************************************************)
Since(t, past) == IF past = ZeroTime THEN MaxTime + TokenCacheTTL + 1 ELSE t - past

\* IsUsable without the credit test.
IsUsableIgnoringCredit(ct, t) == ~(t > ct.ExpiresAt)

IsUsable(ct, t) ==
    IF t > ct.ExpiresAt THEN FALSE ELSE ct.Available > 0

\* advanceToNextToken leaving the index where it is.
advanceToNextTokenStuck(idx) == idx

advanceToNextToken(idx) ==
    IF NumConfigs > 0 THEN (idx + 1) % NumConfigs ELSE idx

\* selectNextAvailableTokenUnlocked: the sweep from position idx with `tried`
\* keys examined so far; returns the key (NoKey when none), the index it
\* leaves in currentIndex and the RateLimiter map after the predicates ran.
RECURSIVE selectNextAvailableTokenUnlocked(_, _, _, _, _)
selectNextAvailableTokenUnlocked(idx, tried, ts, c, t) ==
    IF tried >= NumConfigs
    THEN [key |-> NoKey, idx |-> idx, ts |-> ts, tried |-> tried]
    ELSE LET key == generateConfigOrder[idx + 1]
             ts1 == IsTokenInCooldownState(ts, key, t)
             ts2 == IsDailyLimitExceededState(ts1, key, t)
         IN  IF IsTokenInCooldownResult(ts, key, t)
             THEN selectNextAvailableTokenUnlocked(
                      advanceToNextToken(idx), tried + 1, ts1, c, t)
             ELSE IF IsDailyLimitExceededResult(ts1, key, t)
             THEN selectNextAvailableTokenUnlocked(
                      advanceToNextToken(idx), tried + 1, ts2, c, t)
             ELSE IF key \notin DOMAIN c
             THEN selectNextAvailableTokenUnlocked(
                      advanceToNextToken(idx), tried + 1, ts2, c, t)
             ELSE IF t - c[key].CachedAt > TokenCacheTTL
             THEN selectNextAvailableTokenUnlocked(
                      advanceToNextToken(idx), tried + 1, ts2, c, t)
             ELSE IF ~IsUsable(c[key], t)
             THEN selectNextAvailableTokenUnlocked(
                      advanceToNextToken(idx), tried + 1, ts2, c, t)
             ELSE [key |-> key, idx |-> idx, ts |-> ts2, tried |-> tried]

\* What the identity service and the quota probe can answer for one
\* credential during a cache refresh.
\* kind: the refresh failed on the network ("net_fail"), or it returned a
\* token living `life` ticks and the probe then answered 200 with `credit`
\* credits left ("ok") or 403 TEMPORARILY_SUSPENDED ("suspended").
\* rotated: the identity service returned a refresh secret other than the
\* one it was sent.
\* took: the ticks of the clock that passed while the two calls were made.
NetFail == [kind |-> "net_fail", credit |-> 0, life |-> 0, rotated |-> FALSE,
            took |-> 0]
OkLong == [kind |-> "ok", credit |-> 2, life |-> 9, rotated |-> FALSE,
           took |-> 0]
OkShort == [kind |-> "ok", credit |-> 2, life |-> 2, rotated |-> FALSE,
            took |-> 0]
NoCredit == [kind |-> "ok", credit |-> 0, life |-> 9, rotated |-> FALSE,
             took |-> 0]
Suspended == [kind |-> "suspended", credit |-> 0, life |-> 9, rotated |-> FALSE,
              took |-> 0]
OkRotated == [kind |-> "ok", credit |-> 2, life |-> 9, rotated |-> TRUE,
              took |-> 0]

\* The answers one cache refresh can get, credential 0 first.
RefreshAnswers ==
    { <<OkLong, OkLong>>, <<OkShort, OkLong>>, <<Suspended, OkLong>>,
      <<NetFail, OkLong>>, <<NoCredit, OkLong>>, <<OkLong, NetFail>>,
      <<NoCredit, NoCredit>>, <<NetFail, NetFail>> }

\* The answers of an identity service that rotates refresh secrets.
RotatingAnswers ==
    { <<OkRotated, OkLong>>, <<OkRotated, OkRotated>>, <<OkLong, OkLong>> }

\* The same for credentials that have no credit left: the request that
\* refreshed the cache finds no usable credential and ends there.
NoCreditRotated == [kind |-> "ok", credit |-> 0, life |-> 9, rotated |-> TRUE,
                    took |-> 0]
NoCreditAnswers == { <<NoCredit, NoCreditRotated>>, <<NoCreditRotated, NoCreditRotated>> }

Procs == {1, 2}

\* CheckUsageLimits for the token of credential i: the RateLimiter map after
\* the probe got answer o.
CheckUsageLimits(ts, i, t, o) ==
    IF o.kind = "suspended"
    THEN MarkTokenSuspended(ts, ProbeKeyOf(AccessTokenOf(i)), t, "TEMPORARILY_SUSPENDED")
    ELSE ts

\* The token refreshSingleToken returns for credential i on answer o: its
\* refresh secret is a new one when the identity service rotated it.
RefreshedSecret(secret, o) == IF o.rotated THEN secret + 1 ELSE secret

\* refreshCacheUnlocked, credentials i..NumConfigs-1 still to refresh, with
\* answers o[i], the clock reading t when credential i is reached: the
\* cache, the RateLimiter map, tm.configs and refreshedCount after the loop,
\* and the time t the clock reads there.  The record of credential i gets
\* the time.Now() read after its two calls returned.
RECURSIVE refreshCacheUnlocked(_, _, _, _, _, _, _)
refreshCacheUnlocked(i, c, ts, cfgs, refreshedCount, t, o) ==
    IF i >= NumConfigs
    THEN [cache |-> c, ts |-> ts, configs |-> cfgs, refreshedCount |-> refreshedCount,
          t |-> t]
    ELSE IF o[i].kind = "net_fail"
    THEN refreshCacheUnlocked(i + 1, c, ts, cfgs, refreshedCount, t + o[i].took, o)
    ELSE LET newRefreshToken == RefreshedSecret(cfgs[i + 1], o[i])
             changed == newRefreshToken # cfgs[i + 1]
             done == t + o[i].took
         IN  refreshCacheUnlocked(
                 i + 1,
                 Put(c, CacheKey(i),
                     [AccessToken |-> AccessTokenOf(i),
                      RefreshToken |-> newRefreshToken,
                      ExpiresAt |-> done + o[i].life,
                      CachedAt |-> done,
                      Available |-> IF o[i].kind = "ok" THEN o[i].credit ELSE 0]),
                 CheckUsageLimits(ts, i, done, o[i]),
                 IF changed THEN [cfgs EXCEPT ![i + 1] = newRefreshToken] ELSE cfgs,
                 IF changed THEN refreshedCount + 1 ELSE refreshedCount,
                 done, o)

(***************************************************************************)
(* The credential sources (auth/config.go, persistToFile).  loadConfigs    *)
(* puts the credentials of the managed store first, then those of the      *)
(* file, which holds an array.  A file content is a sequence of byte       *)
(* values: '[', the refresh secrets of the file's credentials, ']'.        *)
(***************************************************************************)
InitialConfigs == [n \in 1..NumConfigs |-> 1]

\* AuthConfig.sourceType of every credential.
sourceType == <<"store", "file">>

\* json.MarshalIndent(fileConfigs), fileConfigs the file's credentials in order.
Marshal(cfgs) ==
    LET RECURSIVE fileConfigs(_)
        fileConfigs(n) ==
            IF n = 0 THEN <<>>
            ELSE fileConfigs(n - 1) \o (IF sourceType[n] = "file" THEN <<cfgs[n]>> ELSE <<>>)
    IN  <<91>> \o fileConfigs(Len(cfgs)) \o <<93>>

\* The names globalConfigMetadata.FilePath and FilePath + ".tmp" and the
\* inodes they name (0: no such name).
InitialFs == [main |-> 1, tmp |-> 0, inodes |-> <<Marshal(InitialConfigs)>>]

\* os.OpenFile(tmpPath, O_WRONLY|O_CREATE|O_TRUNC): the file system after the
\* call and the inode opened.
OpenTrunc(f) ==
    IF f.tmp # 0
    THEN [fs |-> [f EXCEPT !.inodes[f.tmp] = <<>>], fd |-> f.tmp]
    ELSE [fs |-> [f EXCEPT !.inodes = Append(@, <<>>), !.tmp = Len(f.inodes) + 1],
          fd |-> Len(f.inodes) + 1]

\* os.Rename(tmpPath, FilePath); it fails when tmpPath names nothing.
Rename(f) == IF f.tmp # 0 THEN [f EXCEPT !.main = f.tmp, !.tmp = 0] ELSE f

\* The PersistCredentials goroutines the model can run.
WriterIds == {1, 2, 3}

\* A goroutine not started yet, and one just started: i is the loop index,
\* cfg the loop's copy of configs[i], newRefreshToken the secret read from
\* the cache.
NoWriter == [pc |-> "none", i |-> 0, cfg |-> 0, newRefreshToken |-> 0,
             data |-> <<>>, fd |-> 0]
NewWriter == [NoWriter EXCEPT !.pc = "range"]

\* Some goroutine is inside persistToFile, holding tm.mutex for reading.
ReadLocked == \E w \in WriterIds : writers[w].pc \in {"write", "rename"}

\* go func() { tm.PersistCredentials() }()
Spawn(ws) ==
    LET free == { w \in WriterIds : ws[w].pc = "none" }
        w == CHOOSE x \in free : \A y \in free : x <= y
    IN  [ws EXCEPT ![w] = NewWriter]

(***************************************************************************)
(* FingerprintManager (auth/fingerprint.go).  A locale tag is the sequence *)
(* of its subtags ("ja-JP" is <<"ja", "JP">>); an Accept-Language value is *)
(* the sequence of its comma-separated ranges, each a tag with its weight  *)
(* in tenths (10 when no q is given).  Of a Fingerprint the model keeps    *)
(* the fields that depend on the OS profile and the locale; the others are *)
(* drawn independently of them.                                            *)
(***************************************************************************)
osProfiles ==
    << [osType |-> "darwin",
        locales |-> << <<"en", "US">>, <<"en", "GB">>, <<"zh", "CN">>, <<"zh", "TW">>,
                       <<"ja", "JP">>, <<"ko", "KR">>, <<"de", "DE">>, <<"fr", "FR">> >>,
        timezones |-> <<"America/Los_Angeles", "America/New_York", "Europe/London",
                        "Asia/Shanghai", "Asia/Tokyo">>,
        platform |-> "MacIntel"],
       [osType |-> "windows",
        locales |-> << <<"en", "US">>, <<"en", "GB">>, <<"zh", "CN">>, <<"zh", "TW">>,
                       <<"ja", "JP">>, <<"ko", "KR">>, <<"de", "DE">> >>,
        timezones |-> <<"America/Los_Angeles", "America/New_York", "America/Chicago",
                        "Europe/London", "Asia/Shanghai">>,
        platform |-> "Win32"],
       [osType |-> "linux",
        locales |-> << <<"en", "US">>, <<"en", "GB">>, <<"zh", "CN">>, <<"de", "DE">>,
                       <<"ru", "RU">> >>,
        timezones |-> <<"UTC", "America/New_York", "Europe/Berlin", "Asia/Shanghai">>,
        platform |-> "Linux x86_64"] >>

\* acceptLanguageTemplates[locale]; <<>> is the nil slice of a missing key.
acceptLanguageTemplates(locale) ==
    LET r(tag, q) == [tag |-> tag, q |-> q]
        en == <<"en">>
        enUS == <<"en", "US">>
        zh == <<"zh">>
        zhCN == <<"zh", "CN">>
    IN  CASE locale = <<"en", "US">> ->
                 << <<r(enUS, 10), r(en, 9)>>,
                    <<r(enUS, 10), r(en, 9), r(zhCN, 8)>>,
                    <<r(enUS, 10), r(en, 8)>> >>
          [] locale = <<"en", "GB">> ->
                 << <<r(<<"en", "GB">>, 10), r(en, 9), r(enUS, 8)>>,
                    <<r(<<"en", "GB">>, 10), r(en, 9)>> >>
          [] locale = <<"zh", "CN">> ->
                 << <<r(zhCN, 10), r(zh, 9), r(en, 8)>>,
                    <<r(zhCN, 10), r(zh, 9), r(enUS, 8), r(en, 7)>> >>
          [] locale = <<"zh", "TW">> ->
                 << <<r(<<"zh", "TW">>, 10), r(zh, 9), r(en, 8)>>,
                    <<r(<<"zh", "TW">>, 10), r(zhCN, 9), r(zh, 8), r(en, 7)>> >>
          [] locale = <<"ja", "JP">> ->
                 << <<r(<<"ja", "JP">>, 10), r(<<"ja">>, 9), r(en, 8)>>,
                    <<r(<<"ja">>, 10), r(enUS, 9), r(en, 8)>> >>
          [] locale = <<"ko", "KR">> ->
                 << <<r(<<"ko", "KR">>, 10), r(<<"ko">>, 9), r(en, 8)>>,
                    <<r(<<"ko">>, 10), r(enUS, 9), r(en, 8)>> >>
          [] locale = <<"de", "DE">> ->
                 << <<r(<<"de", "DE">>, 10), r(<<"de">>, 9), r(en, 8)>>,
                    <<r(<<"de">>, 10), r(enUS, 9), r(en, 8)>> >>
          [] locale = <<"fr", "FR">> ->
                 << <<r(<<"fr", "FR">>, 10), r(<<"fr">>, 9), r(en, 8)>>,
                    <<r(<<"fr">>, 10), r(enUS, 9), r(en, 8)>> >>
          [] locale = <<"ru", "RU">> ->
                 << <<r(<<"ru", "RU">>, 10), r(<<"ru">>, 9), r(en, 8)>>,
                    <<r(<<"ru">>, 10), r(en, 9)>> >>
          [] OTHER -> <<>>

\* acceptLangOptions with the templates of "en-US" for every locale.
acceptLangOptionsOfDefault(locale) == acceptLanguageTemplates(<<"en", "US">>)

\* acceptLangOptions of generateFingerprint: the templates of the locale,
\* those of "en-US" when it has none.
acceptLangOptions(locale) ==
    IF acceptLanguageTemplates(locale) = <<>>
    THEN acceptLanguageTemplates(<<"en", "US">>)
    ELSE acceptLanguageTemplates(locale)

\* The fingerprints generateFingerprint can return, one per outcome of the
\* rng.Intn draws.
generateFingerprint ==
    UNION { UNION { UNION { { [OSType |-> osProfiles[o].osType,
                               Platform |-> osProfiles[o].platform,
                               Locale |-> osProfiles[o].locales[l],
                               Timezone |-> osProfiles[o].timezones[t],
                               AcceptLanguage |-> acceptLangOptions(osProfiles[o].locales[l])[a]] :
                                 a \in 1..Len(acceptLangOptions(osProfiles[o].locales[l])) } :
                            t \in 1..Len(osProfiles[o].timezones) } :
                    l \in 1..Len(osProfiles[o].locales) } :
            o \in 1..Len(osProfiles) }

\* A nil *Fingerprint.
NoFingerprint == <<>>

\* A goroutine outside GetFingerprint that has not called it yet.
IdleCaller == [pc |-> "idle", key |-> NoKey, fp |-> NoFingerprint]

\* The second lookup of GetFingerprint finding nothing whatever the map holds.
DoubleCheckSkipped(fps, key) == FALSE

\* The second lookup of GetFingerprint, under the write lock.
DoubleCheck(fps, key) == key \in DOMAIN fps

(***************************************************************************)
(* UserTokenCache (unnamed/part_005): the LRU cache of the multi-tenant    *)
(* access tokens.  A cache value c has the map c.cache, the list c.order   *)
(* and the number c.calls of GetOrRefresh calls made so far; an entry      *)
(* records whether its access token has reached its expiry and, as token,  *)
(* the refresh token whose refresh produced that access token.             *)
(***************************************************************************)
NewUserTokenCache == [cache |-> <<>>, order |-> <<>>, calls |-> 0]

\* A goroutine outside GetOrRefresh.
IdleUser ==
    [pc |-> "idle", key |-> NoKey, exists |-> FALSE,
     refreshToken |-> NoKey, token |-> NoKey]

\* The refresh tokens the clients send: two short ones, and two long ones
\* that differ only after the 32nd character.
UserRefreshTokens ==
    { <<"a">>, <<"b">>, Repeat("d", 32) \o <<"1">>, Repeat("d", 32) \o <<"2">> }

hashRefreshToken(token) ==
    IF Len(token) > 32 THEN SubSeq(token, 1, 32) ELSE token

\* delete(m, k) of Go: no effect when k is not a key of m.
Delete(m, k) == [x \in DOMAIN m \ {k} |-> m[x]]

evictOldest(c) ==
    IF Len(c.order) = 0 THEN c
    ELSE [c EXCEPT !.order = Tail(@), !.cache = Delete(@, c.order[1])]

touchKey(c, key) ==
    LET hits == { i \in 1..Len(c.order) : c.order[i] = key }
    IN  IF hits = {} THEN c
        ELSE LET i == CHOOSE h \in hits : \A j \in hits : h <= j
             IN  [c EXCEPT !.order = SubSeq(@, 1, i - 1)
                                       \o SubSeq(@, i + 1, Len(@))
                                       \o <<key>>]

\* GetOrRefresh from c.mu.Lock() to the return, with the exists the caller
\* read under the read lock.
storeEntry(c, key, exists, token) ==
    LET c1 == IF Cardinality(DOMAIN c.cache) >= maxSize /\ ~exists
              THEN evictOldest(c) ELSE c
        c2 == [c1 EXCEPT !.cache =
                  Put(@, key, [expired |-> FALSE, token |-> token])]
    IN  IF ~exists THEN [c2 EXCEPT !.order = Append(@, key)] ELSE c2

(***************************************************************************)
(* Loading the credentials (auth/config.go).  A configuration is a record  *)
(* of the fields of AuthConfig; the empty string is Go's zero value.       *)
(***************************************************************************)
AuthMethodSocial == "Social"

AuthMethodIdC == "IdC"

\* What KIRO_AUTH_TOKEN can parse to: every combination of set and unset
\* fields.
AuthConfigs ==
    [AuthType : {"", AuthMethodSocial, AuthMethodIdC}, RefreshToken : {"", "r"},
     ClientID : {"", "c"}, ClientSecret : {"", "s"}, Disabled : BOOLEAN]

\* What the admin handlers put into the managed store: handleAddToken
\* refuses an empty refresh token and nothing else.
StoreTokens == { t \in AuthConfigs : t.RefreshToken # "" }

\* The sequences over S of at most n elements.
RECURSIVE SeqsUpTo(_, _)
SeqsUpTo(S, n) ==
    IF n = 0 THEN {<<>>}
    ELSE LET shorter == SeqsUpTo(S, n - 1)
         IN  shorter \cup { Append(q, x) : q \in shorter, x \in S }

\* Store.GetEnabledTokens: the tokens of the managed store that are not
\* disabled.
GetEnabledTokens(tokens) == SelectSeq(tokens, LAMBDA t : ~t.Disabled)

RECURSIVE processConfigs(_)
processConfigs(cfgs) ==
    IF cfgs = <<>> THEN <<>>
    ELSE LET config == IF Head(cfgs).AuthType = ""
                       THEN [Head(cfgs) EXCEPT !.AuthType = AuthMethodSocial]
                       ELSE Head(cfgs)
             validConfigs == processConfigs(Tail(cfgs))
         IN  IF config.RefreshToken = "" THEN validConfigs
             ELSE IF /\ config.AuthType = AuthMethodIdC
                     /\ (config.ClientID = "" \/ config.ClientSecret = "")
                  THEN validConfigs
             ELSE IF config.Disabled THEN validConfigs
             ELSE <<config>> \o validConfigs

\* An AuthConfig with its sourceType set.
WithSource(config, source) ==
    [AuthType |-> config.AuthType, RefreshToken |-> config.RefreshToken,
     ClientID |-> config.ClientID, ClientSecret |-> config.ClientSecret,
     Disabled |-> config.Disabled, sourceType |-> source]

\* Nothing is in the managed store and KIRO_AUTH_TOKEN is not set.
NoSources == [store |-> <<>>, env |-> <<>>, configPath |-> "", isMultiFormat |-> FALSE]

\* loadConfigs was not called yet.
NotLoaded == [called |-> FALSE, allConfigs |-> <<>>, err |-> FALSE]

loadConfigs(src) ==
    LET storeTokens == GetEnabledTokens(src.store)
        fromStore == [i \in 1..Len(storeTokens) |->
                         WithSource(storeTokens[i], "store")]
        envConfigs == processConfigs(src.env)
        source == IF src.configPath # "" THEN "file" ELSE "env"
        fromEnv == [i \in 1..Len(envConfigs) |-> WithSource(envConfigs[i], source)]
        allConfigs == fromStore \o fromEnv
    IN  IF Len(allConfigs) = 0
        THEN [allConfigs |-> <<>>, err |-> TRUE]
        ELSE [allConfigs |-> allConfigs, err |-> FALSE]

\* json.MarshalIndent of one AuthConfig: the JSON object, a function from
\* the names of its members to their values.  clientId, clientSecret and
\* disabled are omitempty; sourceType, storeID and index are not serialized.
MarshalConfig(config) ==
    ("auth" :> config.AuthType) @@ ("refreshToken" :> config.RefreshToken)
    @@ (IF config.ClientID # "" THEN "clientId" :> config.ClientID ELSE <<>>)
    @@ (IF config.ClientSecret # "" THEN "clientSecret" :> config.ClientSecret
        ELSE <<>>)
    @@ (IF config.Disabled THEN "disabled" :> TRUE ELSE <<>>)

\* json.MarshalIndent(fileConfigs): the JSON array.
MarshalIndent(fileConfigs) ==
    [n \in 1..Len(fileConfigs) |-> MarshalConfig(fileConfigs[n])]

\* json.Unmarshal of a JSON array into []AuthConfig: a member that is absent
\* leaves Go's zero value.
Unmarshal(data) ==
    [n \in 1..Len(data) |->
        LET Member(name, zero) ==
                IF name \in DOMAIN data[n] THEN data[n][name] ELSE zero
        IN  [AuthType |-> Member("auth", ""),
             RefreshToken |-> Member("refreshToken", ""),
             ClientID |-> Member("clientId", ""),
             ClientSecret |-> Member("clientSecret", ""),
             Disabled |-> Member("disabled", FALSE)]]

\* persistToFile: the content of the file after the call, given as what it
\* parses to.  A file-sourced credential exists only when loadConfigs has
\* set globalConfigMetadata.FilePath, so the test of the path is the test of
\* src.configPath.
persistToFile(src, allConfigs) ==
    LET fileConfigs == SelectSeq(allConfigs, LAMBDA cfg : cfg.sourceType = "file")
    IN  IF src.configPath = "" \/ ~src.isMultiFormat \/ Len(fileConfigs) = 0
        THEN src.env
        ELSE Unmarshal(MarshalIndent(fileConfigs))

(***************************************************************************)
(* Thinking extractor (parser/thinking_state_machine.go and the tag         *)
(* detector).  A string is a sequence of byte values; positions are the     *)
(* code's 0-based offsets, -1 for "not found".                              *)
(***************************************************************************)
quoteChars == {96, 34, 39, 92, 35, 91, 93, 40, 41, 123, 125}

\* "<thinking>"
thinkingStartTag == <<60, 116, 104, 105, 110, 107, 105, 110, 103, 62>>

\* "</thinking>"
thinkingEndTag == <<60, 47, 116, 104, 105, 110, 107, 105, 110, 103, 62>>

isQuoteChar(b) == b \in quoteChars

\* s[a:b] and s[a:]
Slice(s, a, b) == SubSeq(s, a + 1, b)
SliceFrom(s, a) == SubSeq(s, a + 1, Len(s))

\* searchStart + strings.Index(s[searchStart:], sub), -1 when sub is absent.
Index(s, sub, searchStart) ==
    LET hits == { i \in searchStart..(Len(s) - Len(sub)) : Slice(s, i, i + Len(sub)) = sub }
    IN  IF hits = {} THEN -1 ELSE CHOOSE i \in hits : \A j \in hits : i <= j

\* strings.Count(s[:n], b) for a single byte b
Count(s, n, b) == Cardinality({ i \in 1..n : s[i] = b })

HasPrefix(s, prefix) ==
    Len(s) >= Len(prefix) /\ SubSeq(s, 1, Len(prefix)) = prefix

\* The loop of FindRealThinkingStartTag from searchStart on.
RECURSIVE FindStartFrom(_, _)
FindStartFrom(buffer, searchStart) ==
    LET idx == Index(buffer, thinkingStartTag, searchStart)
        afterIdx == idx + Len(thinkingStartTag)
    IN  IF idx = -1 THEN -1
        ELSE IF idx > 0 /\ isQuoteChar(buffer[idx])
        THEN FindStartFrom(buffer, idx + Len(thinkingStartTag))
        ELSE IF afterIdx < Len(buffer) /\ isQuoteChar(buffer[afterIdx + 1])
        THEN FindStartFrom(buffer, afterIdx)
        ELSE IF Count(buffer, idx, 96) % 2 = 1
        THEN FindStartFrom(buffer, idx + Len(thinkingStartTag))
        ELSE idx

\* The first "<thinking>" of the buffer, quoted or not.
FirstThinkingStartTag(buffer) == Index(buffer, thinkingStartTag, 0)

FindRealThinkingStartTag(buffer) == FindStartFrom(buffer, 0)

\* The loop of FindRealThinkingEndTag from searchStart on.
RECURSIVE FindEndFrom(_, _)
FindEndFrom(buffer, searchStart) ==
    LET idx == Index(buffer, thinkingEndTag, searchStart)
        afterIdx == idx + Len(thinkingEndTag)
        remaining == SliceFrom(buffer, afterIdx)
    IN  IF idx = -1 THEN -1
        ELSE IF idx > 0 /\ isQuoteChar(buffer[idx])
        THEN FindEndFrom(buffer, idx + Len(thinkingEndTag))
        ELSE IF afterIdx < Len(buffer) /\ isQuoteChar(buffer[afterIdx + 1])
        THEN FindEndFrom(buffer, afterIdx)
        ELSE IF Count(buffer, idx, 96) % 2 = 1
        THEN FindEndFrom(buffer, idx + Len(thinkingEndTag))
        ELSE IF afterIdx < Len(buffer) /\ Len(remaining) >= 2
                /\ SubSeq(remaining, 1, 2) # <<10, 10>>
        THEN FindEndFrom(buffer, afterIdx)
        ELSE IF afterIdx < Len(buffer) /\ Len(remaining) = 1
        THEN -1
        ELSE idx

FindRealThinkingEndTag(buffer) == FindEndFrom(buffer, 0)

\* utf8.RuneStart: the byte is not a continuation byte (10xxxxxx).
RuneStart(b) == (b \div 64) # 2

RECURSIVE BackToRuneStart(_, _)
BackToRuneStart(s, target) ==
    IF target > 0 /\ ~RuneStart(s[target + 1])
    THEN BackToRuneStart(s, target - 1)
    ELSE target

FindCharBoundary(s, target) ==
    IF target <= 0 THEN 0
    ELSE IF target >= Len(s) THEN Len(s)
    ELSE BackToRuneStart(s, target)

\* ExtractThinkingContent: the three values returned.
ExtractThinkingContent(buffer) ==
    LET startIdx == FindRealThinkingStartTag(buffer)
        contentStart == startIdx + Len(thinkingStartTag)
        relEndIdx == FindRealThinkingEndTag(SliceFrom(buffer, contentStart))
        endIdx == relEndIdx + contentStart
        remainingStart == endIdx + Len(thinkingEndTag)
        remaining == SliceFrom(buffer, remainingStart)
        NotFound == [thinking |-> <<>>, remaining |-> buffer, found |-> FALSE]
    IN  IF startIdx = -1 THEN NotFound
        ELSE IF relEndIdx = -1 THEN NotFound
        ELSE [thinking |-> Slice(buffer, contentStart, endIdx),
              remaining |-> IF remainingStart < Len(buffer)
                            THEN IF HasPrefix(remaining, <<10, 10>>)
                                 THEN SliceFrom(remaining, 2)
                                 ELSE IF HasPrefix(remaining, <<10>>)
                                 THEN SliceFrom(remaining, 1)
                                 ELSE remaining
                            ELSE <<>>,
              found |-> TRUE]

StateNotInThinking == 0
StateInThinking == 1
StateThinkingExtracted == 2

\* A nil *int.
NilIndex == -1

NewThinkingStreamContext(thinkingEnabled) ==
    [ThinkingEnabled |-> thinkingEnabled,
     state |-> StateNotInThinking,
     buffer |-> <<>>,
     ThinkingExtracted |-> FALSE,
     ThinkingBlockIndex |-> IF thinkingEnabled THEN 0 ELSE NilIndex,
     TextBlockIndex |-> IF thinkingEnabled THEN 1 ELSE NilIndex,
     nextBlockIndex |-> IF thinkingEnabled THEN 2 ELSE 0]

Reset(c) ==
    [c EXCEPT !.buffer = <<>>,
              !.state = StateNotInThinking,
              !.ThinkingExtracted = FALSE,
              !.nextBlockIndex = IF c.ThinkingEnabled THEN 2 ELSE 0]

EmptyResult ==
    [ThinkingContent |-> <<>>, TextContent |-> <<>>,
     ThinkingStarted |-> FALSE, ThinkingEnded |-> FALSE]

\* processNotInThinking and the others return the context after the call
\* and the ProcessChunkResult.
processNotInThinking(c, buffer) ==
    LET startIdx == FindRealThinkingStartTag(buffer)
        safeLen == Len(buffer) - Len(thinkingStartTag) + 1
        safeBoundary == FindCharBoundary(buffer, safeLen)
    IN  IF startIdx # -1
        THEN [ctx |-> [c EXCEPT !.state = StateInThinking,
                                !.buffer = SliceFrom(buffer, startIdx + Len(thinkingStartTag))],
              result |-> [EmptyResult EXCEPT !.ThinkingStarted = TRUE,
                                             !.TextContent = Slice(buffer, 0, startIdx)]]
        ELSE IF safeLen > 0 /\ safeBoundary > 0
        THEN [ctx |-> [c EXCEPT !.buffer = SliceFrom(buffer, safeBoundary)],
              result |-> [EmptyResult EXCEPT !.TextContent = Slice(buffer, 0, safeBoundary)]]
        ELSE [ctx |-> c, result |-> EmptyResult]

processInThinking(c, buffer) ==
    LET endIdx == FindRealThinkingEndTag(buffer)
        afterEnd == endIdx + Len(thinkingEndTag)
        remaining == SliceFrom(buffer, afterEnd)
        safeLen == Len(buffer) - Len(thinkingEndTag) + 1
        safeBoundary == FindCharBoundary(buffer, safeLen)
    IN  IF endIdx # -1
        THEN [ctx |-> [c EXCEPT !.state = StateThinkingExtracted,
                                !.ThinkingExtracted = TRUE,
                                !.buffer = <<>>],
              result |-> [EmptyResult EXCEPT
                             !.ThinkingContent = Slice(buffer, 0, endIdx),
                             !.ThinkingEnded = TRUE,
                             !.TextContent =
                                 IF afterEnd < Len(buffer)
                                 THEN IF HasPrefix(remaining, <<10, 10>>)
                                      THEN SliceFrom(remaining, 2)
                                      ELSE IF HasPrefix(remaining, <<10>>)
                                      THEN SliceFrom(remaining, 1)
                                      ELSE remaining
                                 ELSE <<>>]]
        ELSE IF safeLen > 0 /\ safeBoundary > 0
        THEN [ctx |-> [c EXCEPT !.buffer = SliceFrom(buffer, safeBoundary)],
              result |-> [EmptyResult EXCEPT !.ThinkingContent = Slice(buffer, 0, safeBoundary)]]
        ELSE [ctx |-> c, result |-> EmptyResult]

ProcessChunk(c, chunk) ==
    IF ~c.ThinkingEnabled
    THEN [ctx |-> c, result |-> [EmptyResult EXCEPT !.TextContent = chunk]]
    ELSE LET bufferStr == c.buffer \o chunk
             c1 == [c EXCEPT !.buffer = bufferStr]
         IN  IF c.state = StateNotInThinking THEN processNotInThinking(c1, bufferStr)
             ELSE IF c.state = StateInThinking THEN processInThinking(c1, bufferStr)
             ELSE [ctx |-> [c1 EXCEPT !.buffer = <<>>],
                   result |-> [EmptyResult EXCEPT !.TextContent = bufferStr]]

\* FlushBuffer returning whatever is buffered as thinking content.
FlushBufferAsThinking(c) ==
    IF c.buffer = <<>> THEN [ctx |-> c, result |-> EmptyResult]
    ELSE [ctx |-> [c EXCEPT !.buffer = <<>>],
          result |-> [EmptyResult EXCEPT !.ThinkingContent = c.buffer]]

FlushBuffer(c) ==
    IF c.buffer = <<>> THEN [ctx |-> c, result |-> EmptyResult]
    ELSE [ctx |-> [c EXCEPT !.buffer = <<>>],
          result |-> IF c.state = StateInThinking
                     THEN [EmptyResult EXCEPT !.ThinkingContent = c.buffer]
                     ELSE [EmptyResult EXCEPT !.TextContent = c.buffer]]

GetThinkingBlockIndex(c) ==
    IF c.ThinkingBlockIndex # NilIndex THEN c.ThinkingBlockIndex ELSE 0

GetTextBlockIndex(c) ==
    IF c.TextBlockIndex # NilIndex THEN c.TextBlockIndex ELSE 0

\* AllocateBlockIndex: the context after the call and the index returned.
AllocateBlockIndex(c) ==
    [ctx |-> [c EXCEPT !.nextBlockIndex = @ + 1], idx |-> c.nextBlockIndex]

\* The streams fed to the extractor.  A block stream is
\* <thinking> x </thinking> \n \n y; a quoting stream is built from
\* "<thinking>", a backtick, a double quote and a letter.
ThinkingContents == { <<97>>, <<228, 184, 173, 228, 184, 173, 228, 184, 173, 97>> }
VisibleTexts == { <<98>>, <<228, 184, 173>>, thinkingStartTag \o <<98>> }

BlockStream(x, y) == thinkingStartTag \o x \o thinkingEndTag \o <<10, 10>> \o y

Pieces == { thinkingStartTag, <<96>>, <<34>>, <<97>> }

RECURSIVE QuotingStreams(_)
QuotingStreams(n) ==
    IF n = 0 THEN { <<>> }
    ELSE LET shorter == QuotingStreams(n - 1)
         IN  shorter \cup { s \o q : s \in shorter, q \in Pieces }

\* A feed of `stream` to a fresh context: nothing fed, nothing returned.
\* started and ended count the results that reported ThinkingStarted and
\* ThinkingEnded (2 stands for two or more); out is every content returned,
\* thinking and text, in the order of the results.
NewFeed(stream, x, y, block) ==
    [stream |-> stream, x |-> x, y |-> y, block |-> block,
     rest |-> stream, thinking |-> <<>>, text |-> <<>>,
     chunks |-> 0, flushed |-> FALSE, allocated |-> <<>>, resets |-> 0,
     started |-> 0, ended |-> 0, out |-> <<>>]

\* The count n of a flag after one more result.
Reported(n, flag) == IF flag THEN Min(n + 1, 2) ELSE n

\* The contents and the visible texts given to ExtractThinkingContent: every
\* string of at most MaxContentLen bytes over a letter, a double quote, a
\* backtick and a newline, and every string of at most one byte over a
\* letter and a newline.  None holds a '<'.
ExtractContents == SeqsUpTo({97, 34, 96, 10}, MaxContentLen)
ExtractTexts == SeqsUpTo({98, 10}, 1)

\* Inputs without a complete thinking block: no start tag, no end tag, or
\* an end tag that is not followed by two newlines.
IncompleteInputs ==
    { x \o y : x \in ExtractContents, y \in ExtractTexts }
    \cup { thinkingStartTag \o x : x \in ExtractContents }
    \cup { x \o thinkingEndTag \o <<10, 10>> \o y :
               x \in ExtractContents, y \in ExtractTexts }
    \cup { thinkingStartTag \o x \o thinkingEndTag \o <<98>> :
               x \in ExtractContents }

\* ExtractThinkingContent was not called.
NoExtraction ==
    [buffer |-> <<>>, x |-> <<>>, y |-> <<>>, block |-> FALSE, done |-> FALSE,
     thinking |-> <<>>, remaining |-> <<>>, found |-> FALSE]

(***************************************************************************)
(* The mutexes.  tm.mutex and fm.mutex are sync.RWMutex, rl.mutex is a     *)
(* sync.Mutex.  A path is the sequence of lock operations and blocking     *)
(* calls one call makes on one of its return paths: <<"Lock", m>>,         *)
(* <<"Unlock", m>>, <<"RLock", m>>, <<"RUnlock", m>>, and <<"net", what>>  *)
(* or <<"file", what>> for a call that blocks on the network or the disk.  *)
(* A deferred Unlock stands where the function returns.  Loops over the    *)
(* credentials are taken once.                                             *)
(***************************************************************************)
Mutexes == {"tm", "rl", "fm"}

NoneHeld == [m \in Mutexes |-> [w |-> 0, r |-> {}]]

\* A goroutine between two calls.
IdleGoroutine == [path |-> <<>>, at |-> 0]

\* One RateLimiter method: rl.mutex.Lock(); defer rl.mutex.Unlock().
RateLimiterCall == << <<"Lock", "rl">>, <<"Unlock", "rl">> >>

\* FingerprintManager.GetFingerprint: found under the read lock, or generated
\* under the write lock.
GetFingerprintPaths ==
    { << <<"RLock", "fm">>, <<"RUnlock", "fm">> >>,
      << <<"RLock", "fm">>, <<"RUnlock", "fm">>, <<"Lock", "fm">>, <<"Unlock", "fm">> >> }

\* CheckUsageLimits: GetFingerprint, the HTTP request, MarkTokenSuspended on
\* a 403 that names the suspension.
CheckUsageLimitsPaths ==
    { fp \o << <<"net", "probe">> >> \o marked :
          fp \in GetFingerprintPaths, marked \in { <<>>, RateLimiterCall } }

\* refreshCacheUnlocked: not called, or refreshSingleToken failing, or
\* refreshSingleToken followed by CheckUsageLimits.
refreshCacheUnlockedPaths ==
    { <<>>, << <<"net", "refresh">> >> }
    \cup { << <<"net", "refresh">> >> \o probe : probe \in CheckUsageLimitsPaths }

\* selectNextAvailableTokenUnlocked: IsTokenInCooldown, IsDailyLimitExceeded.
selectNextAvailableTokenUnlockedPath == RateLimiterCall \o RateLimiterCall

\* getBestToken and GetTokenWithFingerprint from tm.mutex.Lock() to the
\* selection.
LockedHeadPaths ==
    { << <<"Lock", "tm">> >> \o refresh \o selectNextAvailableTokenUnlockedPath :
          refresh \in refreshCacheUnlockedPaths }

\* WaitForToken, RecordRequest, ShouldRotate and, when it answers true,
\* ResetTokenCount and the advance under tm.mutex.
RateLimitPaths ==
    { RateLimiterCall \o RateLimiterCall \o RateLimiterCall \o rotate :
          rotate \in { <<>>,
                       RateLimiterCall \o << <<"Lock", "tm">>, <<"Unlock", "tm">> >> } }

getBestTokenPaths ==
    { head \o << <<"Unlock", "tm">> >> : head \in LockedHeadPaths }
    \cup { head \o << <<"Unlock", "tm">> >> \o limited
               \o << <<"Lock", "tm">>, <<"Unlock", "tm">> >> :
               head \in LockedHeadPaths, limited \in RateLimitPaths }

GetTokenWithFingerprintPaths ==
    { head \o << <<"Unlock", "tm">> >> : head \in LockedHeadPaths }
    \cup { head \o << <<"Unlock", "tm">> >> \o limited \o fp
               \o << <<"Lock", "tm">>, <<"Unlock", "tm">> >> :
               head \in LockedHeadPaths, limited \in RateLimitPaths,
               fp \in GetFingerprintPaths }

\* MarkTokenFailed taking tm.mutex inside the RateLimiter's critical section.
MarkTokenFailedNested ==
    { << <<"Lock", "rl">>, <<"Lock", "tm">>, <<"Unlock", "tm">>, <<"Unlock", "rl">> >> }

\* MarkTokenFailed: MarkTokenCooldown, then the advance under tm.mutex.
MarkTokenFailedPaths ==
    { RateLimiterCall \o << <<"Lock", "tm">>, <<"Unlock", "tm">> >> }

\* persistToFile: nothing to write, or WriteFile and Rename before the
\* deferred RUnlock.
persistToFilePaths ==
    { <<>>,
      << <<"RLock", "tm">>, <<"RUnlock", "tm">> >>,
      << <<"RLock", "tm">>, <<"file", "write">>, <<"file", "rename">>,
         <<"RUnlock", "tm">> >> }

\* PersistCredentials: the copy of tm.configs, one iteration of the loop
\* (unchanged secret, or persistToStore and the assignment), persistToFile.
PersistCredentialsPaths ==
    { << <<"RLock", "tm">>, <<"RUnlock", "tm">>, <<"RLock", "tm">>, <<"RUnlock", "tm">> >>
          \o changed \o file :
          changed \in { <<>>, << <<"net", "store">>, <<"Lock", "tm">>, <<"Unlock", "tm">> >> },
          file \in persistToFilePaths }

\* The calls a goroutine can make.
CallPaths ==
    getBestTokenPaths \cup GetTokenWithFingerprintPaths
        \cup MarkTokenFailedPaths \cup PersistCredentialsPaths

IdleHeld ==
    [key |-> NoKey, obj |-> ZeroTime, wake |-> 0, failed |-> NoKey, tried |-> 0]

\* No answer was given to a client yet.  A reply records the key the request
\* was served with, whether the upstream body held TEMPORARILY_SUSPENDED, and
\* the status code sent to the client.
NoReply == [key |-> NoKey, suspendedBody |-> FALSE, status |-> 0]

vars == <<now, tokenStates, globalLastRequest, maxConsecutiveUse, currentIndex,
          cache, lastRefresh, pc, held, served, hist, lastUpdate, ctx, io,
          configs, fs, writers, written, updates, fingerprints, callers,
          userCache, users, sources, loaded, extraction, mutexes, goroutines>>

\* The state of the FingerprintManager and of its callers.
fpVars == <<fingerprints, callers>>

\* The state of the UserTokenCache and of its callers.
userVars == <<userCache, users>>

\* The credential sources and the list loaded from them.
loadVars == <<sources, loaded>>

\* The call of the tag detector on a whole buffer.
detectorVars == <<extraction>>

\* The mutexes and the goroutines that take them.
lockVars == <<mutexes, goroutines>>

sideVars == <<fpVars, userVars, loadVars, detectorVars, lockVars>>

parserVars == <<ctx, io>>

persistVars == <<configs, fs, writers, written, updates>>

\* NewRateLimiter and NewTokenManager, with a consecutive-use cap from caps.
AuthInit(caps) ==
    /\ now = 0
    /\ tokenStates = <<>>
    /\ globalLastRequest = ZeroTime
    /\ maxConsecutiveUse \in caps
    /\ currentIndex = 0
    /\ cache = <<>>
    /\ lastRefresh = ZeroTime
    /\ pc = [p \in Procs |-> "idle"]
    /\ held = [p \in Procs |-> IdleHeld]
    /\ served = <<>>
    /\ hist = [requests |-> 0, failures |-> 0, skipped |-> FALSE, reply |-> NoReply]
    /\ lastUpdate = ZeroTime
    /\ configs = InitialConfigs
    /\ fs = InitialFs
    /\ writers = [w \in WriterIds |-> NoWriter]
    /\ written = {}
    /\ updates = {}
    /\ fingerprints = <<>>
    /\ callers = [g \in Procs |-> IdleCaller]
    /\ userCache = NewUserTokenCache
    /\ users = [g \in Procs |-> IdleUser]
    /\ mutexes = NoneHeld
    /\ goroutines = [g \in Procs |-> IdleGoroutine]

\* Nothing is configured in the sources whose loading is not under study.
NothingLoaded ==
    /\ sources = NoSources
    /\ loaded = NotLoaded

Init ==
    /\ AuthInit(ConsecutiveUseCaps)
    /\ NothingLoaded
    /\ extraction = NoExtraction
    /\ ctx = NewThinkingStreamContext(TRUE)
    /\ io = NewFeed(<<>>, <<>>, <<>>, FALSE)

\* The positions a task leaves without waiting for anything.
Urgent ==
    {"wait", "rotchk", "reset", "advance", "final", "failcool", "failadv",
     "sweep", "swept"}

\* The clock advances while every task is idle, asleep or waiting for the
\* upstream; the steps between are instantaneous at the clock's grain.
Tick ==
    /\ now < MaxTime
    /\ hist.requests > 0
    /\ \A p \in Procs : pc[p] \notin Urgent
    /\ now' = now + 1
    /\ UNCHANGED <<sideVars, parserVars, persistVars, tokenStates, globalLastRequest, maxConsecutiveUse,
                   currentIndex, cache, lastRefresh, pc, held, served, hist, lastUpdate>>

\* getBestToken / GetTokenWithFingerprint up to the first tm.mutex.Unlock():
\* refresh the cache when it is older than the TTL, then select.
GetTokenUpTo(p, maxRequests, answers) ==
    /\ pc[p] = "idle"
    /\ hist.requests < maxRequests
    /\ ~ReadLocked
    /\ LET stale == Since(now, lastRefresh) > TokenCacheTTL
       IN  \E a \in IF stale THEN answers ELSE {<<NetFail, NetFail>>} :
             LET o == [i \in ConfigIdx |-> a[i + 1]]
                 r == IF stale
                      THEN refreshCacheUnlocked(0, cache, tokenStates, configs, 0, now, o)
                      ELSE [cache |-> cache, ts |-> tokenStates, configs |-> configs,
                            refreshedCount |-> 0, t |-> now]
                 sel == selectNextAvailableTokenUnlocked(currentIndex, 0, r.ts, r.cache, r.t)
             IN  /\ cache' = r.cache
                 /\ now' = r.t
                 /\ lastRefresh' = IF stale THEN r.t ELSE lastRefresh
                 /\ configs' = r.configs
                 /\ r.refreshedCount > 0 => \E w \in WriterIds : writers[w].pc = "none"
                 /\ writers' = IF r.refreshedCount > 0 THEN Spawn(writers) ELSE writers
                 /\ tokenStates' = sel.ts
                 /\ currentIndex' = sel.idx
                 /\ IF sel.key = NoKey
                    THEN /\ pc' = pc
                         /\ held' = held
                    ELSE /\ pc' = [pc EXCEPT ![p] = "wait"]
                         /\ held' = [held EXCEPT ![p] =
                                [IdleHeld EXCEPT !.key = sel.key,
                                                 !.obj = r.cache[sel.key].CachedAt]]
                 /\ hist' = [hist EXCEPT
                                !.requests = @ + 1,
                                !.skipped = @ \/ sel.tried > 0]
    /\ UNCHANGED <<sideVars, parserVars, fs, written, updates, lastUpdate, globalLastRequest,
                   maxConsecutiveUse, served>>

\* rateLimiter.WaitForToken up to the sleep: the wake-up time is fixed under
\* the RateLimiter lock, from the state read there.
WaitForToken(p) ==
    /\ pc[p] = "wait"
    /\ \E requiredInterval \in randomIntervalWithJitter :
          held' = [held EXCEPT ![p].wake =
                     now + WaitFor(tokenStates, globalLastRequest, held[p].key,
                                   now, requiredInterval)]
    /\ tokenStates' = getOrCreateState(tokenStates, held[p].key, now)
    /\ pc' = [pc EXCEPT ![p] = "sleep"]
    /\ UNCHANGED <<sideVars, parserVars, persistVars, lastUpdate, now, globalLastRequest, maxConsecutiveUse, currentIndex, cache,
                   lastRefresh, served, hist>>

\* The sleep is over; rateLimiter.RecordRequest.
DoRecordRequest(p) ==
    /\ pc[p] = "sleep"
    /\ now >= held[p].wake
    /\ tokenStates' = RecordRequest(tokenStates, held[p].key, now)
    /\ globalLastRequest' = now
    /\ served' = Append(served, [key |-> held[p].key, at |-> now])
    /\ pc' = [pc EXCEPT ![p] = "rotchk"]
    /\ UNCHANGED <<sideVars, parserVars, persistVars, lastUpdate, now, maxConsecutiveUse, currentIndex, cache, lastRefresh, held,
                   hist>>

\* rateLimiter.ShouldRotate(tokenKey).
CheckShouldRotate(p) ==
    /\ pc[p] = "rotchk"
    /\ tokenStates' = getOrCreateState(tokenStates, held[p].key, now)
    /\ pc' = [pc EXCEPT ![p] =
                 IF ShouldRotate(tokenStates, held[p].key, now) THEN "reset" ELSE "final"]
    /\ UNCHANGED <<sideVars, parserVars, persistVars, lastUpdate, now, globalLastRequest, maxConsecutiveUse, currentIndex, cache,
                   lastRefresh, held, served, hist>>

\* rateLimiter.ResetTokenCount(tokenKey).
DoResetTokenCount(p) ==
    /\ pc[p] = "reset"
    /\ tokenStates' = ResetTokenCount(tokenStates, held[p].key, now)
    /\ pc' = [pc EXCEPT ![p] = "advance"]
    /\ UNCHANGED <<sideVars, parserVars, persistVars, lastUpdate, now, globalLastRequest, maxConsecutiveUse, currentIndex, cache,
                   lastRefresh, held, served, hist>>

\* tm.mutex.Lock(); tm.advanceToNextToken(); tm.mutex.Unlock().
RotateAdvance(p) ==
    /\ pc[p] = "advance"
    /\ ~ReadLocked
    /\ currentIndex' = advanceToNextToken(currentIndex)
    /\ pc' = [pc EXCEPT ![p] = "final"]
    /\ UNCHANGED <<sideVars, parserVars, persistVars, lastUpdate, now, tokenStates, globalLastRequest, maxConsecutiveUse, cache,
                   lastRefresh, held, served, hist>>

\* The tail of getBestToken / GetTokenWithFingerprint: bestToken.Available--
\* on the CachedToken object selected, which a refresh may have replaced in
\* the cache since.
Finalize(p) ==
    /\ pc[p] = "final"
    /\ ~ReadLocked
    /\ LET k == held[p].key
       IN  cache' = IF /\ k \in DOMAIN cache
                       /\ cache[k].CachedAt = held[p].obj
                       /\ cache[k].Available > 0
                    THEN Put(cache, k, [cache[k] EXCEPT !.Available = @ - 1])
                    ELSE cache
    /\ pc' = [pc EXCEPT ![p] = "flight"]
    /\ UNCHANGED <<sideVars, parserVars, persistVars, lastUpdate, now, tokenStates, globalLastRequest, maxConsecutiveUse,
                   currentIndex, lastRefresh, held, served, hist>>

\* The upstream answered 200, or the transport failed: nothing is reported.
UpstreamDone(p) ==
    /\ pc[p] = "flight"
    /\ pc' = [pc EXCEPT ![p] = "idle"]
    /\ held' = [held EXCEPT ![p] = IdleHeld]
    /\ UNCHANGED <<sideVars, parserVars, persistVars, lastUpdate, now, tokenStates, globalLastRequest, maxConsecutiveUse,
                   currentIndex, cache, lastRefresh, served, hist>>

\* The upstream answered 403 or 429: AuthService.MarkTokenFailed reads
\* GetCurrentTokenKey().
UpstreamRejected(p) ==
    /\ pc[p] = "flight"
    /\ hist.failures < MaxFailures
    /\ held' = [held EXCEPT ![p].failed = generateConfigOrder[currentIndex + 1]]
    /\ pc' = [pc EXCEPT ![p] = "failcool"]
    /\ hist' = [hist EXCEPT !.failures = @ + 1]
    /\ UNCHANGED <<sideVars, parserVars, persistVars, lastUpdate, now, tokenStates, globalLastRequest, maxConsecutiveUse,
                   currentIndex, cache, lastRefresh, served>>

\* TokenManager.MarkTokenFailed, first half: rateLimiter.MarkTokenCooldown.
FailCooldown(p) ==
    /\ pc[p] = "failcool"
    /\ \E d \in calculateBackoff(NextFailCount(tokenStates, held[p].failed, now)) :
          tokenStates' = MarkTokenCooldown(tokenStates, held[p].failed, now, d)
    /\ pc' = [pc EXCEPT ![p] = "failadv"]
    /\ UNCHANGED <<sideVars, parserVars, persistVars, lastUpdate, now, globalLastRequest, maxConsecutiveUse, currentIndex, cache,
                   lastRefresh, held, served, hist>>

\* TokenManager.MarkTokenFailed, second half: advance under tm.mutex.
FailAdvance(p) ==
    /\ pc[p] = "failadv"
    /\ ~ReadLocked
    /\ currentIndex' = advanceToNextToken(currentIndex)
    /\ pc' = [pc EXCEPT ![p] = "idle"]
    /\ held' = [held EXCEPT ![p] = IdleHeld]
    /\ UNCHANGED <<sideVars, parserVars, persistVars, lastUpdate, now, tokenStates, globalLastRequest, maxConsecutiveUse, cache,
                   lastRefresh, served, hist>>

GetToken(p) == GetTokenUpTo(p, MaxRequests, RefreshAnswers)

ConcGetToken(p) == GetTokenUpTo(p, MaxConcRequests, RefreshAnswers)

\* The server handling one request at a time.
Next ==
    \/ Tick
    \/ GetToken(1)
    \/ WaitForToken(1)
    \/ DoRecordRequest(1)
    \/ CheckShouldRotate(1)
    \/ DoResetTokenCount(1)
    \/ RotateAdvance(1)
    \/ Finalize(1)
    \/ UpstreamDone(1)
    \/ UpstreamRejected(1)
    \/ FailCooldown(1)
    \/ FailAdvance(1)

Spec == Init /\ [][Next]_vars

\* The server handling requests concurrently, one task per request.
ConcNext ==
    \/ Tick
    \/ \E p \in Procs :
          \/ ConcGetToken(p)
          \/ WaitForToken(p)
          \/ DoRecordRequest(p)
          \/ CheckShouldRotate(p)
          \/ DoResetTokenCount(p)
          \/ RotateAdvance(p)
          \/ Finalize(p)
          \/ UpstreamDone(p)
          \/ UpstreamRejected(p)
          \/ FailCooldown(p)
          \/ FailAdvance(p)

SpecConc == Init /\ [][ConcNext]_vars

(***************************************************************************)
(* The upstream's answer on the request path (server/common.go).  The      *)
(* upstream answers with a status code and a body that may hold            *)
(* TEMPORARILY_SUSPENDED; a 200 carries the event stream.                  *)
(***************************************************************************)
UpstreamStatuses == {200, 403, 429, 500}

\* handleCodeWhispererError: 200 is passed on; 403 and 429 call
\* AuthService.MarkTokenFailed, which reads GetCurrentTokenKey(), and answer
\* 401 and 429; any other status answers 500.  The body is logged.
HandleCodeWhispererError(p) ==
    /\ pc[p] = "flight"
    /\ \E status \in UpstreamStatuses : \E suspendedBody \in BOOLEAN :
          LET failed == status \in {403, 429}
              sent == IF status = 403 THEN 401
                      ELSE IF status \in {200, 429} THEN status
                      ELSE 500
          IN  /\ status = 200 => ~suspendedBody
              /\ failed => hist.failures < MaxFailures
              /\ held' = IF failed
                         THEN [held EXCEPT ![p].failed = generateConfigOrder[currentIndex + 1]]
                         ELSE [held EXCEPT ![p] = IdleHeld]
              /\ pc' = [pc EXCEPT ![p] = IF failed THEN "failcool" ELSE "idle"]
              /\ hist' = [hist EXCEPT
                             !.failures = IF failed THEN @ + 1 ELSE @,
                             !.reply = [key |-> held[p].key,
                                        suspendedBody |-> suspendedBody,
                                        status |-> sent]]
    /\ UNCHANGED <<sideVars, parserVars, persistVars, lastUpdate, now, tokenStates, globalLastRequest,
                   maxConsecutiveUse, currentIndex, cache, lastRefresh, served>>

UpstreamGetToken(p) == GetTokenUpTo(p, MaxUpstreamRequests, RefreshAnswers)

UpstreamNext ==
    \/ Tick
    \/ UpstreamGetToken(1)
    \/ WaitForToken(1)
    \/ DoRecordRequest(1)
    \/ CheckShouldRotate(1)
    \/ DoResetTokenCount(1)
    \/ RotateAdvance(1)
    \/ Finalize(1)
    \/ HandleCodeWhispererError(1)
    \/ FailCooldown(1)
    \/ FailAdvance(1)

SpecUpstream == Init /\ [][UpstreamNext]_vars

(***************************************************************************)
(* The RateLimiter on its own: any caller may apply any exported method to *)
(* a key at any time.                                                      *)
(***************************************************************************)
RLKeys == {CacheKey(0)}

RLTick ==
    /\ now < MaxTime
    /\ now' = now + 1
    /\ UNCHANGED <<sideVars, parserVars, persistVars, tokenStates, globalLastRequest, maxConsecutiveUse, currentIndex,
                   cache, lastRefresh, pc, held, served, hist, lastUpdate>>

\* The frame of a RateLimiter call that updates key state.
RLUpdate ==
    /\ lastUpdate' = now
    /\ UNCHANGED <<sideVars, parserVars, persistVars, now, maxConsecutiveUse, currentIndex, cache, lastRefresh, pc,
                   held, served, hist>>

\* The frame of a RateLimiter query.
RLQuery ==
    UNCHANGED <<sideVars, parserVars, persistVars, now, globalLastRequest, maxConsecutiveUse, currentIndex, cache,
                lastRefresh, pc, held, served, hist, lastUpdate>>

CallMarkTokenSuspended(k) ==
    /\ tokenStates' = MarkTokenSuspended(tokenStates, k, now, "TEMPORARILY_SUSPENDED")
    /\ UNCHANGED globalLastRequest
    /\ RLUpdate

CallMarkTokenCooldown(k) ==
    /\ NextFailCount(tokenStates, k, now) <= MaxFailCount
    /\ \E d \in calculateBackoff(NextFailCount(tokenStates, k, now)) :
          tokenStates' = MarkTokenCooldown(tokenStates, k, now, d)
    /\ UNCHANGED globalLastRequest
    /\ RLUpdate

CallRecordSuccess(k) ==
    /\ tokenStates' = RecordSuccess(tokenStates, k, now)
    /\ UNCHANGED globalLastRequest
    /\ RLUpdate

CallRecordRequest(k) ==
    /\ k \in DOMAIN tokenStates =>
          /\ tokenStates[k].RequestCount < MaxRequests
          /\ tokenStates[k].DailyRequests < MaxRequests
    /\ tokenStates' = RecordRequest(tokenStates, k, now)
    /\ globalLastRequest' = now
    /\ RLUpdate

CallResetTokenCount(k) ==
    /\ tokenStates' = ResetTokenCount(tokenStates, k, now)
    /\ UNCHANGED globalLastRequest
    /\ RLUpdate

CallIsTokenSuspended(k) ==
    /\ tokenStates' = IsTokenSuspendedState(tokenStates, k, now)
    /\ RLQuery

CallIsTokenInCooldown(k) ==
    /\ tokenStates' = IsTokenInCooldownState(tokenStates, k, now)
    /\ RLQuery

CallIsDailyLimitExceeded(k) ==
    /\ tokenStates' = IsDailyLimitExceededState(tokenStates, k, now)
    /\ RLQuery

RLNext ==
    \/ RLTick
    \/ \E k \in RLKeys :
          \/ CallMarkTokenSuspended(k)
          \/ CallMarkTokenCooldown(k)
          \/ CallRecordSuccess(k)
          \/ CallRecordRequest(k)
          \/ CallResetTokenCount(k)
          \/ CallIsTokenSuspended(k)
          \/ CallIsTokenInCooldown(k)
          \/ CallIsDailyLimitExceeded(k)

SpecRL == Init /\ [][RLNext]_vars

(***************************************************************************)
(* Write-back of rotated refresh secrets: refreshCacheUnlocked starts a    *)
(* PersistCredentials goroutine whenever it has stored a new secret.       *)
(***************************************************************************)
RotatingGetToken(p) == GetTokenUpTo(p, MaxRotatingRequests, RotatingAnswers)

\* The position of a PersistCredentials goroutine after iteration i of its loop.
AfterIteration(wr) ==
    [wr EXCEPT !.i = @ + 1,
               !.pc = IF wr.i + 1 < NumConfigs THEN "range" ELSE "file"]

\* for i, cfg := range configs: the loop copies element i of the array
\* tm.configs shares, without the lock.
PersistRange(w) ==
    /\ writers[w].pc = "range"
    /\ writers' = [writers EXCEPT ![w].cfg = configs[writers[w].i + 1],
                                  ![w].pc = "compare"]
    /\ UNCHANGED <<sideVars, parserVars, configs, fs, written, updates, now, tokenStates,
                   globalLastRequest, maxConsecutiveUse, currentIndex, cache,
                   lastRefresh, pc, held, served, hist, lastUpdate>>

\* The body of the loop up to the switch: read the cached token, leave the
\* credential alone when its secret is the copy's, else persistToStore for a
\* credential of the managed store.
PersistCompare(w) ==
    /\ writers[w].pc = "compare"
    /\ LET i == writers[w].i
           cacheKey == CacheKey(i)
       IN  IF cacheKey \notin DOMAIN cache
              \/ cache[cacheKey].RefreshToken = writers[w].cfg
           THEN /\ writers' = [writers EXCEPT ![w] = AfterIteration(@)]
                /\ UNCHANGED updates
           ELSE /\ writers' = [writers EXCEPT
                                  ![w].newRefreshToken = cache[cacheKey].RefreshToken,
                                  ![w].pc = "assign"]
                /\ updates' = IF sourceType[i + 1] = "store"
                              THEN updates \cup {[storeID |-> i,
                                                  RefreshToken |-> cache[cacheKey].RefreshToken]}
                              ELSE updates
    /\ UNCHANGED <<sideVars, parserVars, configs, fs, written, now, tokenStates,
                   globalLastRequest, maxConsecutiveUse, currentIndex, cache,
                   lastRefresh, pc, held, served, hist, lastUpdate>>

\* tm.mutex.Lock(); tm.configs[i].RefreshToken = newRefreshToken; Unlock().
PersistAssign(w) ==
    /\ writers[w].pc = "assign"
    /\ ~ReadLocked
    /\ configs' = [configs EXCEPT ![writers[w].i + 1] = writers[w].newRefreshToken]
    /\ writers' = [writers EXCEPT ![w] = AfterIteration(@)]
    /\ UNCHANGED <<sideVars, parserVars, fs, written, updates, now, tokenStates,
                   globalLastRequest, maxConsecutiveUse, currentIndex, cache,
                   lastRefresh, pc, held, served, hist, lastUpdate>>

\* persistToFile up to the open inside os.WriteFile: tm.mutex.RLock(), marshal
\* the configs, create or truncate <path>.tmp.
PersistOpenTmp(w) ==
    /\ writers[w].pc = "file"
    /\ LET data == Marshal(configs)
           r == OpenTrunc(fs)
       IN  /\ fs' = r.fs
           /\ writers' = [writers EXCEPT ![w].pc = "write", ![w].data = data,
                                         ![w].fd = r.fd]
           /\ written' = written \cup {data}
    /\ UNCHANGED <<sideVars, parserVars, configs, updates, now, tokenStates, globalLastRequest,
                   maxConsecutiveUse, currentIndex, cache, lastRefresh, pc, held,
                   served, hist, lastUpdate>>

\* The write and close inside os.WriteFile, on the inode opened.
PersistWriteTmp(w) ==
    /\ writers[w].pc = "write"
    /\ fs' = [fs EXCEPT !.inodes[writers[w].fd] = writers[w].data]
    /\ writers' = [writers EXCEPT ![w].pc = "rename"]
    /\ UNCHANGED <<sideVars, parserVars, configs, written, updates, now, tokenStates, globalLastRequest,
                   maxConsecutiveUse, currentIndex, cache, lastRefresh, pc, held,
                   served, hist, lastUpdate>>

\* os.Rename, os.Remove(tmpPath) when it failed, and the deferred RUnlock.
PersistRename(w) ==
    /\ writers[w].pc = "rename"
    /\ fs' = Rename(fs)
    /\ writers' = [writers EXCEPT ![w].pc = "done"]
    /\ UNCHANGED <<sideVars, parserVars, configs, written, updates, now, tokenStates, globalLastRequest,
                   maxConsecutiveUse, currentIndex, cache, lastRefresh, pc, held,
                   served, hist, lastUpdate>>

PersistNext ==
    \/ Tick
    \/ RotatingGetToken(1)
    \/ WaitForToken(1)
    \/ DoRecordRequest(1)
    \/ CheckShouldRotate(1)
    \/ DoResetTokenCount(1)
    \/ RotateAdvance(1)
    \/ Finalize(1)
    \/ UpstreamDone(1)
    \/ UpstreamRejected(1)
    \/ FailCooldown(1)
    \/ FailAdvance(1)
    \/ \E w \in WriterIds :
          \/ PersistRange(w)
          \/ PersistCompare(w)
          \/ PersistAssign(w)
          \/ PersistOpenTmp(w)
          \/ PersistWriteTmp(w)
          \/ PersistRename(w)

SpecPersist == Init /\ [][PersistNext]_vars

(***************************************************************************)
(* Write-back over several cache lifetimes: every request finds the cache  *)
(* stale, has it refreshed by an identity service that rotates the secrets *)
(* and ends with no usable credential; the write-backs run alongside.      *)
(***************************************************************************)
WriteBackTick ==
    /\ now < MaxWriteBackTime
    /\ now' = now + 1
    /\ UNCHANGED <<sideVars, parserVars, persistVars, tokenStates, globalLastRequest, maxConsecutiveUse,
                   currentIndex, cache, lastRefresh, pc, held, served, hist, lastUpdate>>

NoCreditGetToken(p) ==
    /\ Since(now, lastRefresh) > TokenCacheTTL
    /\ GetTokenUpTo(p, MaxWriteBackRequests, NoCreditAnswers)

WriteBackNext ==
    \/ WriteBackTick
    \/ NoCreditGetToken(1)
    \/ \E w \in WriterIds :
          \/ PersistRange(w)
          \/ PersistCompare(w)
          \/ PersistAssign(w)
          \/ PersistOpenTmp(w)
          \/ PersistWriteTmp(w)
          \/ PersistRename(w)

SpecWriteBack == Init /\ [][WriteBackNext]_vars

(***************************************************************************)
(* The FingerprintManager called from concurrent goroutines.               *)
(***************************************************************************)
FpKeys == {CacheKey(0)}

FpFrame ==
    UNCHANGED <<userVars, loadVars, detectorVars, lockVars, parserVars, persistVars, now, tokenStates, globalLastRequest,
                maxConsecutiveUse, currentIndex, cache, lastRefresh, pc, held,
                served, hist, lastUpdate>>

\* GetFingerprint up to the RUnlock: return the fingerprint found, or go on
\* to the write lock.
GetFingerprintRead(g) ==
    /\ callers[g].pc = "idle"
    /\ \E key \in FpKeys :
          callers' = [callers EXCEPT ![g] =
                         IF key \in DOMAIN fingerprints
                         THEN [pc |-> "idle", key |-> key, fp |-> fingerprints[key]]
                         ELSE [pc |-> "miss", key |-> key, fp |-> NoFingerprint]]
    /\ UNCHANGED fingerprints
    /\ FpFrame

\* GetFingerprint from fm.mutex.Lock() to the return.
GetFingerprintWrite(g) ==
    /\ callers[g].pc = "miss"
    /\ IF DoubleCheck(fingerprints, callers[g].key)
       THEN /\ callers' = [callers EXCEPT ![g].pc = "idle",
                                          ![g].fp = fingerprints[callers[g].key]]
            /\ UNCHANGED fingerprints
       ELSE \E fp \in generateFingerprint :
               /\ fingerprints' = Put(fingerprints, callers[g].key, fp)
               /\ callers' = [callers EXCEPT ![g].pc = "idle", ![g].fp = fp]
    /\ FpFrame

FingerprintNext ==
    \E g \in Procs : GetFingerprintRead(g) \/ GetFingerprintWrite(g)

SpecFingerprint == Init /\ [][FingerprintNext]_vars

(***************************************************************************)
(* The two callers of GetFingerprint for one credential: goroutine 1 runs  *)
(* the quota probe of a cache refresh (CheckUsageLimits), goroutine 2      *)
(* serves a request (GetTokenWithFingerprint), both for credential 0.       *)
(***************************************************************************)
\* token.AccessToken[:20], the key CheckUsageLimits passes to GetFingerprint.
ProbeFingerprintKey(accessToken) == SubSeq(accessToken, 1, 20)

\* GetFingerprint(key) up to the RUnlock, called by goroutine g.
LookupFingerprint(g, key) ==
    /\ callers[g].pc = "idle"
    /\ callers' = [callers EXCEPT ![g] =
                      IF key \in DOMAIN fingerprints
                      THEN [pc |-> "idle", key |-> key, fp |-> fingerprints[key]]
                      ELSE [pc |-> "miss", key |-> key, fp |-> NoFingerprint]]
    /\ UNCHANGED fingerprints
    /\ FpFrame

\* CheckUsageLimits: fpManager.GetFingerprint(token.AccessToken[:20]).
ProbeGetFingerprint ==
    LookupFingerprint(1, ProbeFingerprintKey(AccessTokenOf(0)))

\* GetTokenWithFingerprint: tm.fingerprintManager.GetFingerprint(tokenKey),
\* tokenKey being the cache key of the credential selected.
ServeGetFingerprint ==
    LookupFingerprint(2, CacheKey(0))

ProbeNext ==
    \/ ProbeGetFingerprint
    \/ ServeGetFingerprint
    \/ \E g \in Procs : GetFingerprintWrite(g)

SpecProbe == Init /\ [][ProbeNext]_vars

(***************************************************************************)
(* Concurrent requests on one credential that has credit left for all of   *)
(* them: credential 0 is refreshed with plenty of credit, the refresh of   *)
(* credential 1 fails on the network.                                      *)
(***************************************************************************)
OkPlenty ==
    [kind |-> "ok", credit |-> MaxDailyRequests, life |-> 9, rotated |-> FALSE,
     took |-> 0]

DailyAnswers == { <<OkPlenty, NetFail>> }

DailyGetToken(p) == GetTokenUpTo(p, MaxDailyRequests, DailyAnswers)

DailyNext ==
    \/ Tick
    \/ \E p \in Procs :
          \/ DailyGetToken(p)
          \/ WaitForToken(p)
          \/ DoRecordRequest(p)
          \/ CheckShouldRotate(p)
          \/ DoResetTokenCount(p)
          \/ RotateAdvance(p)
          \/ Finalize(p)
          \/ UpstreamDone(p)

SpecDaily == Init /\ [][DailyNext]_vars

(***************************************************************************)
(* Requests served while the calls of a cache refresh take time: every     *)
(* credential is refreshed with success, and the two calls made for a      *)
(* credential return either at once or one tick later.                     *)
(***************************************************************************)
OkSlow == [OkLong EXCEPT !.took = 1]

SlowAnswers ==
    { <<OkLong, OkLong>>, <<OkLong, OkSlow>>, <<OkSlow, OkLong>>, <<OkSlow, OkSlow>> }

SlowGetToken(p) == GetTokenUpTo(p, MaxRequests, SlowAnswers)

SlowNext ==
    \/ Tick
    \/ SlowGetToken(1)
    \/ WaitForToken(1)
    \/ DoRecordRequest(1)
    \/ CheckShouldRotate(1)
    \/ DoResetTokenCount(1)
    \/ RotateAdvance(1)
    \/ Finalize(1)
    \/ UpstreamDone(1)

SpecSlow == Init /\ [][SlowNext]_vars

(***************************************************************************)
(* Concurrent requests with the sweep of selectNextAvailableTokenUnlocked  *)
(* taken one RateLimiter call at a time.  The sweep runs under tm.mutex;   *)
(* IsTokenInCooldown takes and releases rl.mutex, and MarkTokenCooldown    *)
(* of another request, which needs rl.mutex only, can run before the sweep *)
(* goes on.  A task at "sweep" is about to call IsTokenInCooldown for the  *)
(* key at currentIndex, a task at "swept" got false from it.               *)
(***************************************************************************)
SweepingTasks == { q \in Procs : pc[q] \in {"sweep", "swept"} }

\* tm.mutex is free.
MutexFree == SweepingTasks = {} /\ ~ReadLocked

\* getBestToken on a cache that is older than the TTL: the refresh and the
\* sweep, in one step.
RefreshingGetToken(p) ==
    /\ Since(now, lastRefresh) > TokenCacheTTL
    /\ MutexFree
    /\ GetTokenUpTo(p, MaxConcRequests, RefreshAnswers)

\* getBestToken on a fresh cache, up to the first test of the loop.
SweepStart(p) ==
    /\ pc[p] = "idle"
    /\ hist.requests < MaxConcRequests
    /\ MutexFree
    /\ ~(Since(now, lastRefresh) > TokenCacheTTL)
    /\ pc' = [pc EXCEPT ![p] = "sweep"]
    /\ held' = [held EXCEPT ![p] = IdleHeld]
    /\ hist' = [hist EXCEPT !.requests = @ + 1]
    /\ UNCHANGED <<sideVars, parserVars, persistVars, lastUpdate, now, tokenStates,
                   globalLastRequest, maxConsecutiveUse, currentIndex, cache,
                   lastRefresh, served>>

\* The test of the loop and rateLimiter.IsTokenInCooldown(key).
SweepCooldown(p) ==
    /\ pc[p] = "sweep"
    /\ IF held[p].tried >= NumConfigs
       THEN /\ pc' = [pc EXCEPT ![p] = "idle"]
            /\ held' = [held EXCEPT ![p] = IdleHeld]
            /\ UNCHANGED <<tokenStates, currentIndex>>
       ELSE LET key == generateConfigOrder[currentIndex + 1]
            IN  /\ tokenStates' = IsTokenInCooldownState(tokenStates, key, now)
                /\ IF IsTokenInCooldownResult(tokenStates, key, now)
                   THEN /\ currentIndex' = advanceToNextToken(currentIndex)
                        /\ held' = [held EXCEPT ![p].tried = @ + 1]
                        /\ pc' = pc
                   ELSE /\ pc' = [pc EXCEPT ![p] = "swept"]
                        /\ UNCHANGED <<currentIndex, held>>
    /\ UNCHANGED <<sideVars, parserVars, persistVars, lastUpdate, now,
                   globalLastRequest, maxConsecutiveUse, cache, lastRefresh,
                   served, hist>>

\* The rest of the iteration: IsDailyLimitExceeded, the cache record, its
\* age and IsUsable; the key is returned or the sweep goes on.
SweepRest(p) ==
    /\ pc[p] = "swept"
    /\ LET key == generateConfigOrder[currentIndex + 1]
           skip == \/ IsDailyLimitExceededResult(tokenStates, key, now)
                   \/ key \notin DOMAIN cache
                   \/ now - cache[key].CachedAt > TokenCacheTTL
                   \/ ~IsUsable(cache[key], now)
       IN  /\ tokenStates' = IsDailyLimitExceededState(tokenStates, key, now)
           /\ IF skip
              THEN /\ currentIndex' = advanceToNextToken(currentIndex)
                   /\ held' = [held EXCEPT ![p].tried = @ + 1]
                   /\ pc' = [pc EXCEPT ![p] = "sweep"]
                   /\ hist' = hist
              ELSE /\ currentIndex' = currentIndex
                   /\ held' = [held EXCEPT ![p] =
                          [IdleHeld EXCEPT !.key = key,
                                           !.obj = cache[key].CachedAt]]
                   /\ pc' = [pc EXCEPT ![p] = "wait"]
                   /\ hist' = [hist EXCEPT !.skipped = @ \/ held[p].tried > 0]
    /\ UNCHANGED <<sideVars, parserVars, persistVars, lastUpdate, now,
                   globalLastRequest, maxConsecutiveUse, cache, lastRefresh,
                   served>>

SweepNext ==
    \/ Tick
    \/ \E p \in Procs :
          \/ RefreshingGetToken(p)
          \/ SweepStart(p)
          \/ SweepCooldown(p)
          \/ SweepRest(p)
          \/ WaitForToken(p)
          \/ DoRecordRequest(p)
          \/ CheckShouldRotate(p)
          \/ DoResetTokenCount(p)
          \/ MutexFree /\ RotateAdvance(p)
          \/ MutexFree /\ Finalize(p)
          \/ UpstreamDone(p)
          \/ UpstreamRejected(p)
          \/ FailCooldown(p)
          \/ MutexFree /\ FailAdvance(p)

SpecSweep == Init /\ [][SweepNext]_vars

(***************************************************************************)
(* The lock operations of concurrent calls of getBestToken,                *)
(* GetTokenWithFingerprint, MarkTokenFailed and PersistCredentials.        *)
(***************************************************************************)
LockFrame ==
    UNCHANGED <<fpVars, userVars, loadVars, detectorVars, parserVars, persistVars,
                now, tokenStates, globalLastRequest, maxConsecutiveUse,
                currentIndex, cache, lastRefresh, pc, held, served, hist,
                lastUpdate>>

\* The operation goroutine g is at: <<"none", "">> between calls and at the
\* return.
Instr(g) ==
    IF goroutines[g].at \in 1..Len(goroutines[g].path)
    THEN goroutines[g].path[goroutines[g].at]
    ELSE <<"none", "">>

Advance(g) == goroutines' = [goroutines EXCEPT ![g].at = @ + 1]

\* g holds mutex m, for writing or for reading.
Holds(g, m) == mutexes[m].w = g \/ g \in mutexes[m].r

\* The acquisition g is at cannot proceed.
Blocked(g) ==
    \/ Instr(g)[1] = "Lock"
          /\ (mutexes[Instr(g)[2]].w # 0 \/ mutexes[Instr(g)[2]].r # {})
    \/ Instr(g)[1] = "RLock" /\ mutexes[Instr(g)[2]].w # 0

\* g waits for a mutex that h holds.
WaitsFor(g, h) == Blocked(g) /\ Holds(h, Instr(g)[2])

CallStart(g) ==
    /\ goroutines[g] = IdleGoroutine
    /\ \E path \in CallPaths : goroutines' = [goroutines EXCEPT ![g] = [path |-> path, at |-> 1]]
    /\ UNCHANGED mutexes
    /\ LockFrame

Acquire(g) ==
    /\ Instr(g)[1] \in {"Lock", "RLock"}
    /\ ~Blocked(g)
    /\ mutexes' = IF Instr(g)[1] = "Lock"
                  THEN [mutexes EXCEPT ![Instr(g)[2]].w = g]
                  ELSE [mutexes EXCEPT ![Instr(g)[2]].r = @ \cup {g}]
    /\ Advance(g)
    /\ LockFrame

Release(g) ==
    /\ Instr(g)[1] \in {"Unlock", "RUnlock"}
    /\ mutexes' = IF Instr(g)[1] = "Unlock"
                  THEN [mutexes EXCEPT ![Instr(g)[2]].w = 0]
                  ELSE [mutexes EXCEPT ![Instr(g)[2]].r = @ \ {g}]
    /\ Advance(g)
    /\ LockFrame

\* The network or the disk answered.
BlockingCall(g) ==
    /\ Instr(g)[1] \in {"net", "file"}
    /\ Advance(g)
    /\ UNCHANGED mutexes
    /\ LockFrame

CallReturn(g) ==
    /\ goroutines[g].at > Len(goroutines[g].path)
    /\ goroutines[g].at > 0
    /\ goroutines' = [goroutines EXCEPT ![g] = IdleGoroutine]
    /\ UNCHANGED mutexes
    /\ LockFrame

LockNext ==
    \E g \in Procs :
        \/ CallStart(g)
        \/ Acquire(g)
        \/ Release(g)
        \/ BlockingCall(g)
        \/ CallReturn(g)

SpecLocks == Init /\ [][LockNext]_vars

(***************************************************************************)
(* The UserTokenCache called from concurrent goroutines.                   *)
(***************************************************************************)
UserFrame ==
    UNCHANGED <<fpVars, loadVars, detectorVars, lockVars, parserVars, persistVars, now,
                tokenStates,
                globalLastRequest, maxConsecutiveUse, currentIndex, cache,
                lastRefresh, pc, held, served, hist, lastUpdate>>

\* GetOrRefresh up to the test of the entry read under the read lock.
GetOrRefreshLookup(g) ==
    /\ users[g].pc = "idle"
    /\ userCache.calls < MaxUserCalls
    /\ \E refreshToken \in UserRefreshTokens :
          LET cacheKey == hashRefreshToken(refreshToken)
              exists == cacheKey \in DOMAIN userCache.cache
          IN  users' = [users EXCEPT ![g] =
                  [pc |-> IF exists /\ ~userCache.cache[cacheKey].expired
                          THEN "touch" ELSE "refresh",
                   key |-> cacheKey, exists |-> exists,
                   refreshToken |-> refreshToken,
                   token |-> IF exists THEN userCache.cache[cacheKey].token
                             ELSE NoKey]]
    /\ userCache' = [userCache EXCEPT !.calls = @ + 1]
    /\ UserFrame

\* The cache hit: touchKey and the return of the token read under the read
\* lock.
GetOrRefreshTouch(g) ==
    /\ users[g].pc = "touch"
    /\ userCache' = touchKey(userCache, users[g].key)
    /\ users' = [users EXCEPT ![g] = IdleUser]
    /\ UserFrame

\* The cache miss: refreshSocialToken, which may fail, then the update of
\* the cache under the write lock.  The access token that a successful
\* refresh returns is named by the refresh token it was obtained from.
GetOrRefreshStore(g) ==
    /\ users[g].pc = "refresh"
    /\ \E refreshed \in BOOLEAN :
          userCache' = IF refreshed
                       THEN storeEntry(userCache, users[g].key,
                                       users[g].exists, users[g].refreshToken)
                       ELSE userCache
    /\ users' = [users EXCEPT ![g] = IdleUser]
    /\ UserFrame

\* Time passes and the access token of an entry reaches its expiry.
UserTokenExpires ==
    /\ \E key \in DOMAIN userCache.cache :
          /\ ~userCache.cache[key].expired
          /\ userCache' = [userCache EXCEPT !.cache[key].expired = TRUE]
    /\ UNCHANGED users
    /\ UserFrame

UserCacheNext ==
    \/ \E g \in Procs :
          GetOrRefreshLookup(g) \/ GetOrRefreshTouch(g) \/ GetOrRefreshStore(g)
    \/ UserTokenExpires

SpecUserCache == Init /\ [][UserCacheNext]_vars

(***************************************************************************)
(* The start of the service: loadConfigs over any content of the managed   *)
(* store and of KIRO_AUTH_TOKEN.                                           *)
(***************************************************************************)
LoadInit ==
    /\ AuthInit({10})
    /\ ctx = NewThinkingStreamContext(TRUE)
    /\ io = NewFeed(<<>>, <<>>, <<>>, FALSE)
    /\ \E store \in SeqsUpTo(StoreTokens, MaxSourceEntries) :
       \E env \in SeqsUpTo(AuthConfigs, MaxSourceEntries) :
       \E configPath \in {"", "auth.json"} :
       \E isMultiFormat \in BOOLEAN :
          /\ ~isMultiFormat => Len(env) = 1
          /\ sources = [store |-> store, env |-> env, configPath |-> configPath,
                        isMultiFormat |-> isMultiFormat]
    /\ loaded = NotLoaded
    /\ extraction = NoExtraction

LoadConfigs ==
    /\ loaded = NotLoaded
    /\ LET r == loadConfigs(sources)
       IN  loaded' = [called |-> TRUE, allConfigs |-> r.allConfigs, err |-> r.err]
    /\ UNCHANGED <<fpVars, userVars, detectorVars, sources, lockVars, parserVars,
                   persistVars, now,
                   tokenStates, globalLastRequest, maxConsecutiveUse,
                   currentIndex, cache, lastRefresh, pc, held, served, hist,
                   lastUpdate>>

LoadNext == LoadConfigs

SpecLoad == LoadInit /\ [][LoadNext]_vars

(***************************************************************************)
(* The write-back to a credential file that holds an array: the service    *)
(* loads the file, the identity service rotates the refresh secret of a    *)
(* served credential, and PersistCredentials writes the file.              *)
(***************************************************************************)
FileInit ==
    /\ AuthInit({10})
    /\ ctx = NewThinkingStreamContext(TRUE)
    /\ io = NewFeed(<<>>, <<>>, <<>>, FALSE)
    /\ \E env \in SeqsUpTo(AuthConfigs, MaxFileEntries) :
          sources = [store |-> <<>>, env |-> env, configPath |-> "auth.json",
                     isMultiFormat |-> TRUE]
    /\ loaded = NotLoaded
    /\ extraction = NoExtraction

\* PersistCredentials after the refresh of credential i has returned a new
\* refresh secret: the secret is assigned to tm.configs[i], then
\* persistToFile runs.
PersistRotated(i) ==
    /\ loaded.called
    /\ i \in 1..Len(loaded.allConfigs)
    /\ loaded.allConfigs[i].RefreshToken = "r"
    /\ LET allConfigs == [loaded.allConfigs EXCEPT ![i].RefreshToken = "r2"]
       IN  /\ loaded' = [loaded EXCEPT !.allConfigs = allConfigs]
           /\ sources' = [sources EXCEPT !.env = persistToFile(sources, allConfigs)]
    /\ UNCHANGED <<fpVars, userVars, detectorVars, lockVars, parserVars, persistVars, now,
                   tokenStates,
                   globalLastRequest, maxConsecutiveUse, currentIndex, cache,
                   lastRefresh, pc, held, served, hist, lastUpdate>>

FileNext ==
    \/ LoadConfigs
    \/ \E i \in 1..MaxFileEntries : PersistRotated(i)

SpecFileWriteBack == FileInit /\ [][FileNext]_vars

(***************************************************************************)
(* ExtractThinkingContent called on a whole response.                      *)
(***************************************************************************)
ExtractInit ==
    /\ AuthInit({10})
    /\ NothingLoaded
    /\ ctx = NewThinkingStreamContext(TRUE)
    /\ io = NewFeed(<<>>, <<>>, <<>>, FALSE)
    /\ \/ \E x \in ExtractContents : \E y \in ExtractTexts :
             extraction = [NoExtraction EXCEPT !.buffer = BlockStream(x, y),
                                               !.x = x, !.y = y, !.block = TRUE]
       \/ \E buffer \in IncompleteInputs :
             extraction = [NoExtraction EXCEPT !.buffer = buffer]

CallExtractThinkingContent ==
    /\ ~extraction.done
    /\ LET r == ExtractThinkingContent(extraction.buffer)
       IN  extraction' = [extraction EXCEPT !.done = TRUE,
                                            !.thinking = r.thinking,
                                            !.remaining = r.remaining,
                                            !.found = r.found]
    /\ UNCHANGED <<fpVars, userVars, loadVars, lockVars, parserVars, persistVars, now,
                   tokenStates, globalLastRequest, maxConsecutiveUse,
                   currentIndex, cache, lastRefresh, pc, held, served, hist,
                   lastUpdate>>

ExtractNext == CallExtractThinkingContent

SpecExtract == ExtractInit /\ [][ExtractNext]_vars

(***************************************************************************)
(* The thinking extractor driven by a caller: a stream arrives in chunks   *)
(* cut at any byte, FlushBuffer is called at the end of the stream, block  *)
(* indices are allocated at any time, Reset starts the stream over.        *)
(***************************************************************************)
authVars == <<now, tokenStates, globalLastRequest, maxConsecutiveUse, currentIndex,
              cache, lastRefresh, pc, held, served, hist, lastUpdate, persistVars,
              sideVars>>

ParserInit ==
    /\ AuthInit({10})
    /\ NothingLoaded
    /\ extraction = NoExtraction
    /\ \E thinkingEnabled \in BOOLEAN :
          ctx = NewThinkingStreamContext(thinkingEnabled)
    /\ \/ \E x \in ThinkingContents : \E y \in VisibleTexts :
             io = NewFeed(BlockStream(x, y), x, y, TRUE)
       \/ \E s \in QuotingStreams(MaxPieces) :
             io = NewFeed(s, <<>>, <<>>, FALSE)

FeedChunk ==
    /\ ~io.flushed
    /\ \E n \in 1..Len(io.rest) :
          LET r == ProcessChunk(ctx, SubSeq(io.rest, 1, n))
          IN  /\ ctx' = r.ctx
              /\ io' = [io EXCEPT !.rest = SliceFrom(io.rest, n),
                                  !.thinking = @ \o r.result.ThinkingContent,
                                  !.text = @ \o r.result.TextContent,
                                  !.out = @ \o r.result.ThinkingContent
                                            \o r.result.TextContent,
                                  !.chunks = Min(@ + 1, 2),
                                  !.started = Reported(@, r.result.ThinkingStarted),
                                  !.ended = Reported(@, r.result.ThinkingEnded)]
    /\ UNCHANGED authVars

Flush ==
    /\ ~io.flushed
    /\ io.rest = <<>>
    /\ LET r == FlushBuffer(ctx)
       IN  /\ ctx' = r.ctx
           /\ io' = [io EXCEPT !.thinking = @ \o r.result.ThinkingContent,
                               !.text = @ \o r.result.TextContent,
                               !.out = @ \o r.result.ThinkingContent
                                         \o r.result.TextContent,
                               !.started = Reported(@, r.result.ThinkingStarted),
                               !.ended = Reported(@, r.result.ThinkingEnded),
                               !.flushed = TRUE]
    /\ UNCHANGED authVars

Allocate ==
    /\ Len(io.allocated) < MaxBlocks
    /\ LET r == AllocateBlockIndex(ctx)
       IN  /\ ctx' = r.ctx
           /\ io' = [io EXCEPT !.allocated = Append(@, r.idx)]
    /\ UNCHANGED authVars

ResetContext ==
    /\ io.resets < MaxResets
    /\ ctx' = Reset(ctx)
    /\ io' = [NewFeed(io.stream, io.x, io.y, io.block) EXCEPT !.resets = io.resets + 1]
    /\ UNCHANGED authVars

ParserNext == FeedChunk \/ Flush \/ Allocate \/ ResetContext

SpecParser == ParserInit /\ [][ParserNext]_vars

(***************************************************************************)
(* Properties of credential selection and rate governance.                 *)
(***************************************************************************)
\* Task p's step ends the selection with a key in hand.
Selected(p) == pc[p] = "idle" /\ pc'[p] = "wait"

\* Task p's step is its RecordRequest: the instant the request is issued.
Issued(p) == pc[p] = "sleep" /\ pc'[p] = "rotchk"

\* The run so far had no upstream rejection and no selection that skipped a key.
CleanRun == hist.failures = 0 /\ ~hist.skipped

\* How many of the requests issued so far were served by key k.
ServedBy(k) == Cardinality({n \in 1..Len(served) : served[n].key = k})

\* C1: under any interleaving of concurrent requests, every request is
\* issued at least globalMinInterval after the request issued before it.
GlobalSpacingFloor ==
    [][\A p \in Procs :
          (Issued(p) /\ globalLastRequest # ZeroTime)
              => now - globalLastRequest >= globalMinInterval]_vars

\* The quota probe marked credential i suspended less than suspendedCooldown ago.
ProbeSuspended(i) ==
    LET k == ProbeKeyOf(AccessTokenOf(i))
    IN  /\ k \in DOMAIN tokenStates
        /\ tokenStates[k].SuspendedAt # ZeroTime
        /\ now < tokenStates[k].SuspendedAt + suspendedCooldown

\* C3: once the quota probe has marked a credential suspended, no selection
\* returns that credential until suspendedCooldown has elapsed.
SuspendedNeverSelected ==
    [][\A p \in Procs : \A i \in ConfigIdx :
          (Selected(p) /\ held'[p].key = CacheKey(i)) => ~ProbeSuspended(i)']_vars

\* The selection predicates on key k, with the expiry test the code makes.
SelectionSafe(k) ==
    /\ ~IsTokenInCooldownResult(tokenStates, k, now)
    /\ ~IsDailyLimitExceededResult(tokenStates, k, now)
    /\ k \in DOMAIN cache
    /\ now - cache[k].CachedAt <= TokenCacheTTL
    /\ now <= cache[k].ExpiresAt
    /\ cache[k].Available > 0

SuspensionPersistence ==
    \A k \in DOMAIN tokenStates :
        LET t == tokenStates[k].SuspendedAt
        IN  t # ZeroTime =>
              /\ now < t + suspendedCooldown
                    => IsTokenInCooldownResult(tokenStates, k, now)
              /\ (now = t + suspendedCooldown /\ lastUpdate < now)
                    => ~IsTokenInCooldownResult(tokenStates, k, now)

\* C14: under any interleaving of concurrent requests, two requests served
\* with the same key are issued at least minTokenInterval apart.
PerKeySpacing ==
    \A n \in 1..Len(served) : \A m \in (n + 1)..Len(served) :
        served[n].key = served[m].key
            => served[m].at - served[n].at >= minTokenInterval

\* C15: when the upstream answers 403 or 429 to a request served with
\* credential K, the credential MarkTokenFailed puts into cooldown is K, also
\* when currentIndex has changed since K was selected.
FailureAttribution ==
    \A p \in Procs : pc[p] = "failcool" => held[p].failed = held[p].key

\* C16: whenever the upstream's body for a request holds
\* TEMPORARILY_SUSPENDED, whatever the status code, the client is sent 503
\* and the credential that served the request is marked suspended.
SuspensionOnRequestPath ==
    [][\A p \in Procs :
          (pc[p] = "flight" /\ pc'[p] # "flight" /\ hist'.reply.suspendedBody)
              => /\ hist'.reply.status = 503
                 /\ IsTokenSuspendedResult(tokenStates', hist'.reply.key, now)]_vars

\* C13: the n-th consecutive reported failure of key K sets cooldown-end
\* minus the failure instant to a value of [base * m^(n-1), 1.2 * base * m^(n-1)],
\* or to backoff-max when that value would exceed backoff-max; the duration is
\* never negative and never greater than backoff-max.
BackoffRange ==
    [][\A k \in RLKeys :
          (/\ k \in DOMAIN tokenStates'
           /\ tokenStates'[k].FailCount = NextFailCount(tokenStates, k, now))
              => LET n == tokenStates'[k].FailCount
                     d == tokenStates'[k].CooldownEnd - now
                     lo == backoffBase * Pow(backoffMultiplier, n - 1)
                 IN  /\ d >= 0
                     /\ d <= backoffMax
                     /\ \/ d >= lo /\ 5 * d <= 6 * lo
                        \/ d = backoffMax /\ 6 * lo > 5 * backoffMax]_vars

\* The RateLimiter holds no failure and no suspension for the key.
CleanState(ts, key) ==
    key \in DOMAIN ts => (ts[key].FailCount = 0 /\ ~ts[key].IsSuspended)

\* C40: at the instant selectNextAvailableTokenUnlocked returns key K, the
\* consecutive-failure count of K is 0 and its suspended flag is false in
\* the RateLimiter.
CleanStateAtSelection ==
    [][ \A p \in Procs :
           (pc[p] \in {"idle", "swept"} /\ pc'[p] = "wait")
               => CleanState(tokenStates', held'[p].key) ]_vars

\* C39: between two cache refreshes no record installed by the last refresh
\* becomes TTL-stale before the next refresh is triggered: whenever
\* now - lastRefresh <= TTL, every record the last refresh installed has
\* now - CachedAt <= TTL.  Under SpecSlow every refresh installs the record
\* of every credential.
CacheFreshnessWindow ==
    (lastRefresh # ZeroTime /\ now - lastRefresh <= TokenCacheTTL) =>
        \A k \in DOMAIN cache : now - cache[k].CachedAt <= TokenCacheTTL

(***************************************************************************)
(* Properties of the UserTokenCache.                                       *)
(***************************************************************************)
\* C19: the user-token cache never holds more than maxSize entries, after
\* any sequence and any interleaving of concurrent GetOrRefresh calls.
UserCacheBound == Cardinality(DOMAIN userCache.cache) <= maxSize

\* C36: GetOrRefresh(r) only ever returns an access token obtained by
\* refreshing r itself: a call that is about to return the token of the
\* cache entry it found returns a token that came from its own refresh
\* token, so no entry is shared by two different refresh tokens.
UserTokenIsolation ==
    \A g \in Procs :
        users[g].pc = "touch" => users[g].token = users[g].refreshToken

SameButSecret(before, after) ==
    [after EXCEPT !.RefreshToken = before.RefreshToken] = before

\* C21: a file write-back changes only the refresh secrets: every entry that
\* was in the source array before the write-back, the disabled ones
\* included, is in the file afterwards, at its place and with its other
\* fields as they were.
WriteBackFrame ==
    [][ sources'.env # sources.env =>
            /\ Len(sources'.env) = Len(sources.env)
            /\ \A n \in 1..Len(sources.env) :
                   SameButSecret(sources.env[n], sources'.env[n]) ]_vars

\* C23: a cap-reaching rotates once.  Between two resets the counter of a
\* key passes the cap once, so no two tasks are at the same time past a
\* ShouldRotate that answered true for the same key and before their
\* ResetTokenCount: each of them resets the counter and advances
\* currentIndex by one position.
RotationOncePerCap ==
    \A p, q \in Procs :
        (p # q /\ pc[p] = "reset" /\ pc[q] = "reset") => held[p].key # held[q].key

\* C24: currentIndex changes only in the advance that follows a ShouldRotate
\* that fired and in the advance of MarkTokenFailed, each time to
\* (currentIndex + 1) mod N; a selection leaves it where it was.
LazyAdvance ==
    [][ currentIndex' # currentIndex =>
            /\ \E p \in Procs : \/ pc[p] = "advance" /\ pc'[p] = "final"
                                \/ pc[p] = "failadv" /\ pc'[p] = "idle"
            /\ currentIndex' = (currentIndex + 1) % NumConfigs ]_vars

\* The step is a selection: getBestToken up to its first Unlock.
Sweeping == hist'.requests = hist.requests + 1

\* Key k passes the tests of the sweep at instant t: not in cooldown, under
\* the daily cap, and cached with a fresh and usable token.
SelectableKey(ts, c, k, t) ==
    /\ ~IsTokenInCooldownResult(ts, k, t)
    /\ ~IsDailyLimitExceededResult(ts, k, t)
    /\ k \in DOMAIN c
    /\ ~(t - c[k].CachedAt > TokenCacheTTL)
    /\ IsUsable(c[k], t)

CooldownEndOf(ts, k) == IF k \in DOMAIN ts THEN ts[k].CooldownEnd ELSE ZeroTime

\* A step is a MarkTokenCooldown(k) call: the only call that raises FailCount.
ReportsFailure(k) ==
    /\ k \in DOMAIN tokenStates'
    /\ tokenStates'[k].FailCount
           = (IF k \in DOMAIN tokenStates THEN tokenStates[k].FailCount ELSE 0) + 1

\* C26: MarkTokenCooldown(K) never moves K's cooldown-end earlier: after the
\* call CooldownEnd(K) is at least what it was before, whatever state K was
\* in (suspended, in cooldown, after a RecordSuccess inside a cooldown).
CooldownEndMonotone ==
    [][ \A k \in RLKeys :
            ReportsFailure(k)
                => CooldownEndOf(tokenStates', k) >= CooldownEndOf(tokenStates, k) ]_vars

\* C31: a credential whose refresh failed on the network has no record in
\* the cache (records are never removed); the next lookup, which finds no
\* record for it, runs the refresh again: tm.lastRefresh is set anew.
RefreshRetry ==
    [][ (Sweeping /\ lastRefresh # ZeroTime
             /\ \E i \in ConfigIdx : CacheKey(i) \notin DOMAIN cache)
            => lastRefresh' # lastRefresh ]_vars

(***************************************************************************)
(* Properties of ExtractThinkingContent.                                   *)
(***************************************************************************)
\* C22: for X and Y without tag text, ExtractThinkingContent of
\* "<thinking>" X "</thinking>\n\n" Y returns (X, Y, true); for an input
\* without a complete thinking block it returns ("", input, false).
ExtractionRoundTrip ==
    extraction.done =>
        IF extraction.block
        THEN /\ extraction.thinking = extraction.x
             /\ extraction.remaining = extraction.y
             /\ extraction.found
        ELSE /\ extraction.thinking = <<>>
             /\ extraction.remaining = extraction.buffer
             /\ ~extraction.found

(***************************************************************************)
(* Properties of the thinking extractor.                                   *)
(***************************************************************************)
\* C7: however the stream <thinking> x </thinking> \n \n y is cut into
\* chunks, once every chunk went through ProcessChunk (thinking enabled) and
\* FlushBuffer was called, the thinking content returned is x and the text y.
ChunkSplitInvariance ==
    (io.block /\ ctx.ThinkingEnabled /\ io.flushed)
        => (io.thinking = io.x /\ io.text = io.y)

\* "<thinking>" stands at offset i of the buffer.
StartTagAt(buffer, i) ==
    Slice(buffer, i, i + Len(thinkingStartTag)) = thinkingStartTag

\* The tag at offset i has a quote character right before or right after it,
\* or an odd number of backticks before it.
QuotedOrFenced(buffer, i) ==
    \/ i > 0 /\ buffer[i] \in quoteChars
    \/ i + Len(thinkingStartTag) < Len(buffer)
          /\ buffer[i + Len(thinkingStartTag) + 1] \in quoteChars
    \/ Cardinality({ j \in 1..i : buffer[j] = 96 }) % 2 = 1

EveryStartTagFalse(buffer) ==
    \A i \in 0..(Len(buffer) - Len(thinkingStartTag)) :
        StartTagAt(buffer, i) => QuotedOrFenced(buffer, i)

\* C8: when every "<thinking>" of the input is quoted or fenced,
\* FindRealThinkingStartTag answers -1, and one ProcessChunk of the whole input
\* (thinking enabled) leaves the state NotInThinking; after FlushBuffer the
\* text returned is the whole input and no thinking content was returned.
FalseTagRejection ==
    EveryStartTagFalse(io.stream) =>
        /\ FindRealThinkingStartTag(io.stream) = -1
        /\ (ctx.ThinkingEnabled /\ io.chunks = 1 /\ io.rest = <<>>) =>
              /\ ctx.state = StateNotInThinking
              /\ io.thinking = <<>>
              /\ io.flushed => io.text = io.stream

\* An input holding a quoted or fenced "<thinking>" went through one
\* ProcessChunk and FlushBuffer.
FalseTagFlushed ==
    /\ Index(io.stream, thinkingStartTag, 0) # -1
    /\ EveryStartTagFalse(io.stream)
    /\ ctx.ThinkingEnabled
    /\ io.chunks = 1
    /\ io.flushed

\* C37: when every "<thinking>" of the whole stream is quoted or fenced, no
\* cut of the stream into chunks makes the extractor (thinking enabled) leave
\* NotInThinking or return thinking content, and after FlushBuffer the text
\* returned is the whole stream.
ChunkIndependentRejection ==
    (EveryStartTagFalse(io.stream) /\ ctx.ThinkingEnabled) =>
        /\ ctx.state = StateNotInThinking
        /\ io.thinking = <<>>
        /\ io.flushed => io.text = io.stream

\* s without the n bytes at offset i.
RemoveAt(s, i, n) == Slice(s, 0, i) \o SliceFrom(s, i + n)

\* The number of newlines, two at most, directly after offset n of s.
NewlinesAt(s, n) ==
    IF n < Len(s) /\ s[n + 1] = 10
    THEN IF n + 1 < Len(s) /\ s[n + 2] = 10 THEN 2 ELSE 1
    ELSE 0

EndTagAt(s, j) ==
    /\ j + Len(thinkingEndTag) <= Len(s)
    /\ Slice(s, j, j + Len(thinkingEndTag)) = thinkingEndTag

\* What is left of s when nothing but the tags is lost: s itself when no
\* start tag was recognized, s without one start tag when no end tag was
\* recognized, and otherwise s without one start tag, one end tag after it
\* and the one or two newlines directly after that end tag.
Conserved(s, started, ended) ==
    LET starts == { i \in 0..(Len(s) - Len(thinkingStartTag)) : StartTagAt(s, i) }
        ends(i) == { j \in (i + Len(thinkingStartTag))..Len(s) : EndTagAt(s, j) }
    IN  IF started = 0 THEN {s}
        ELSE IF ended = 0
        THEN { RemoveAt(s, i, Len(thinkingStartTag)) : i \in starts }
        ELSE UNION { { RemoveAt(RemoveAt(s, j, Len(thinkingEndTag)
                                   + NewlinesAt(s, j + Len(thinkingEndTag))),
                                i, Len(thinkingStartTag)) : j \in ends(i) } :
                     i \in starts }

\* C38: the extractor neither loses nor duplicates bytes: once every chunk
\* went through ProcessChunk and FlushBuffer was called, the contents
\* returned, thinking and text in the order of the results, are the input
\* without the recognized start tag, the recognized end tag and the one or
\* two newlines directly after that end tag.
ByteConservation ==
    io.flushed => io.out \in Conserved(io.stream, io.started, io.ended)

\* C9: with thinking enabled the thinking block index is 0, the text block
\* index 1 and the indices allocated are 2, 3, 4, ...; with thinking disabled
\* the text block index is 0 and the indices allocated are 1, 2, 3, ...; in
\* both modes no allocated index equals the thinking or the text block index.
BlockIndexContract ==
    LET a == io.allocated
    IN  /\ ctx.ThinkingEnabled =>
              /\ GetThinkingBlockIndex(ctx) = 0
              /\ GetTextBlockIndex(ctx) = 1
              /\ \A n \in 1..Len(a) : a[n] = n + 1
        /\ ~ctx.ThinkingEnabled =>
              /\ GetTextBlockIndex(ctx) = 0
              /\ \A n \in 1..Len(a) : a[n] = n
        /\ \A n \in 1..Len(a) :
              /\ a[n] # GetTextBlockIndex(ctx)
              /\ ctx.ThinkingEnabled => a[n] # GetThinkingBlockIndex(ctx)
              /\ n > 1 => a[n] > a[n - 1]

\* A step is a ProcessChunk or a FlushBuffer call on the context.
ExtractorCall ==
    /\ io'.resets = io.resets
    /\ \/ Len(io'.rest) < Len(io.rest)
       \/ io'.flushed /\ ~io.flushed

\* C27: over the ProcessChunk and FlushBuffer calls on one context the state
\* moves only NotInThinking -> InThinking -> Extracted, one step at a time,
\* and stays in Extracted; ThinkingStarted and ThinkingEnded are each reported
\* at most once, ThinkingEnded only after ThinkingStarted; thinking content
\* is returned only by calls made after the one that reported ThinkingStarted
\* and not after the one that reported ThinkingEnded.
ExtractorStateOrder ==
    [][ ExtractorCall =>
            /\ ctx'.state \in {ctx.state, ctx.state + 1}
            /\ ctx'.state <= StateThinkingExtracted
            /\ io'.started = (IF ctx'.state >= StateInThinking THEN 1 ELSE 0)
            /\ io'.ended = (IF ctx'.state = StateThinkingExtracted THEN 1 ELSE 0)
            /\ io'.thinking # io.thinking => io.started = 1 /\ io.ended = 0 ]_vars

\* A whole block stream went through: the block ended, its content came out
\* as thinking content and the text after it as text, cut into two chunks or
\* more and flushed.
BlockWentThrough ==
    /\ io.block
    /\ ctx.state = StateThinkingExtracted
    /\ io.chunks >= 2
    /\ io.flushed
    /\ io.thinking # <<>>
    /\ io.text # <<>>

\* A step is a ProcessChunk call; Fed is the chunk it was given and Emitted
\* the thinking content it returned.
ProcessChunkCall == io'.resets = io.resets /\ Len(io'.rest) < Len(io.rest)
Fed == SubSeq(io.rest, 1, Len(io.rest) - Len(io'.rest))
Emitted == SubSeq(io'.thinking, Len(io.thinking) + 1, Len(io'.thinking))

\* C28: in InThinking, with </thinking> in the bytes received and not yet
\* returned (block streams: the tag is neither quoted nor fenced), the call
\* ends the block exactly when the tag is followed by \n\n; when the bytes
\* stop right after the tag or after one \n the state stays InThinking and
\* the thinking content returned stops before the tag.
CloseTagRecognition ==
    [][ (ProcessChunkCall /\ io.block /\ ctx.ThinkingEnabled
             /\ ctx.state = StateInThinking) =>
            LET buffer == ctx.buffer \o Fed
                idx == Index(buffer, thinkingEndTag, 0)
                suffix == SliceFrom(buffer, idx + Len(thinkingEndTag))
            IN  idx # -1 =>
                    /\ ctx'.state = StateThinkingExtracted
                           <=> HasPrefix(suffix, <<10, 10>>)
                    /\ suffix \in {<<>>, <<10>>} =>
                           /\ ctx'.state = StateInThinking
                           /\ Len(Emitted) <= idx ]_vars

\* The text a ProcessChunk call returned.
EmittedText == SubSeq(io'.text, Len(io.text) + 1, Len(io'.text))

\* The number of bytes of the codepoint a lead byte starts; 0 for a byte that
\* starts none (a continuation byte, 0xF8 and above).
RuneLen(b) ==
    IF b < 128 THEN 1
    ELSE IF b < 192 THEN 0
    ELSE IF b < 224 THEN 2
    ELSE IF b < 240 THEN 3
    ELSE IF b < 248 THEN 4
    ELSE 0

\* s is a sequence of whole codepoints: every lead byte is followed by its
\* continuation bytes and no continuation byte stands alone.
RECURSIVE ValidUTF8(_)
ValidUTF8(s) ==
    IF s = <<>> THEN TRUE
    ELSE LET n == RuneLen(s[1])
         IN  /\ n > 0
             /\ n <= Len(s)
             /\ \A i \in 2..n : ~RuneStart(s[i])
             /\ ValidUTF8(SliceFrom(s, n))

\* C29: a valid UTF-8 stream cut into chunks at any byte: the thinking
\* content and the text every ProcessChunk call returns, in every state, are
\* sequences of whole codepoints.
NoPartialCodepoint ==
    [][ ProcessChunkCall => ValidUTF8(Emitted) /\ ValidUTF8(EmittedText) ]_vars

\* C30: after every ProcessChunk call, in every state and however the
\* stream is cut, the context's buffer holds at most len(thinkingEndTag) + 1
\* bytes.
CarryBufferBound ==
    [][ ProcessChunkCall => Len(ctx'.buffer) <= Len(thinkingEndTag) + 1 ]_vars

(***************************************************************************)
(* Properties of the FingerprintManager.                                   *)
(***************************************************************************)
\* C17: every call of GetFingerprint(key), concurrent first calls included,
\* returns the fingerprint stored for the key, and a fingerprint stored for a
\* key is never replaced.
FingerprintStickiness ==
    [][/\ \A key \in DOMAIN fingerprints :
             key \in DOMAIN fingerprints' /\ fingerprints'[key] = fingerprints[key]
       /\ \A g \in Procs :
             callers'[g].fp # NoFingerprint
                 => /\ callers'[g].key \in DOMAIN fingerprints'
                    /\ callers'[g].fp = fingerprints'[callers'[g].key]]_vars

\* Two goroutines made their first call for a key at the same time: one has
\* generated the fingerprint and returned, the other is past its read-locked
\* lookup, which found nothing.
ConcurrentFirstCalls ==
    /\ callers[1].pc = "idle"
    /\ callers[1].fp # NoFingerprint
    /\ callers[2].pc = "miss"
    /\ callers[2].key = callers[1].key

\* s is a prefix of t.
IsPrefix(s, t) == Len(s) <= Len(t) /\ SubSeq(t, 1, Len(s)) = s

\* The OS profile a fingerprint was drawn from.
ProfileOf(fp) == CHOOSE p \in { osProfiles[o] : o \in 1..Len(osProfiles) } : p.osType = fp.OSType

InPool(x, pool) == \E n \in 1..Len(pool) : pool[n] = x

\* C18 (amended): every fingerprint generateFingerprint produces has its
\* locale in the locale pool of its OS profile, its timezone in that profile's
\* timezone pool, and an Accept-Language value whose first range is the locale
\* tag or the language subtag of the locale tag.
FingerprintCoherence ==
    \A key \in DOMAIN fingerprints :
        LET fp == fingerprints[key]
        IN  /\ InPool(fp.Locale, ProfileOf(fp).locales)
            /\ InPool(fp.Timezone, ProfileOf(fp).timezones)
            /\ IsPrefix(fp.AcceptLanguage[1].tag, fp.Locale)

\* C18 as stated: the same with an Accept-Language value that begins with the
\* whole locale tag.
FingerprintCoherenceFullTag ==
    \A key \in DOMAIN fingerprints :
        LET fp == fingerprints[key]
        IN  /\ InPool(fp.Locale, ProfileOf(fp).locales)
            /\ InPool(fp.Timezone, ProfileOf(fp).timezones)
            /\ fp.AcceptLanguage[1].tag = fp.Locale

\* A fingerprint of locale ja-JP was generated with the Accept-Language value
\* "ja,en-US;q=0.9,en;q=0.8".
JapaneseLanguageOnly ==
    \E key \in DOMAIN fingerprints :
        /\ fingerprints[key].Locale = <<"ja", "JP">>
        /\ fingerprints[key].AcceptLanguage[1].tag = <<"ja">>

\* C32: once the quota probe of a credential and a request served with that
\* credential have both got their fingerprint, the two were looked up under
\* the same registry key and are the same fingerprint.
ProbeFingerprintIdentity ==
    (/\ callers[1].pc = "idle" /\ callers[1].fp # NoFingerprint
     /\ callers[2].pc = "idle" /\ callers[2].fp # NoFingerprint)
        => /\ callers[1].key = callers[2].key
           /\ callers[1].fp = callers[2].fp

\* C34: with a daily cap configured, no key's DailyRequests exceeds the cap,
\* whatever the interleaving of the requests that selected the key (the
\* counter restarts from 0 at a daily reset).
DailyCapBound ==
    dailyMaxRequests > 0 =>
        \A k \in DOMAIN tokenStates : tokenStates[k].DailyRequests <= dailyMaxRequests

(***************************************************************************)
(* Properties of the mutexes.                                              *)
(***************************************************************************)
\* C33: no goroutine holds tm.mutex, for writing or for reading, while its
\* refresh, its quota probe, or its write or rename of the credential file is
\* in flight, and at most one goroutine at a time is writing or renaming the
\* credential file.
NoMutexAcrossIO ==
    /\ \A g \in Procs :
          (Instr(g) \in { <<"net", "refresh">>, <<"net", "probe">>,
                          <<"file", "write">>, <<"file", "rename">> })
              => ~Holds(g, "tm")
    /\ Cardinality({ g \in Procs : Instr(g)[1] = "file" }) <= 1

\* The order the mutexes are taken in: tm.mutex, then fm.mutex or rl.mutex.
LockRank(m) == IF m = "tm" THEN 1 ELSE IF m = "fm" THEN 2 ELSE 3

\* C35: no interleaving of getBestToken, GetTokenWithFingerprint,
\* MarkTokenFailed and PersistCredentials calls deadlocks: no goroutine waits
\* for a mutex it holds itself and no two goroutines wait for each other; a
\* goroutine asks for a mutex only while it holds none of the same or a later
\* rank; every Unlock and RUnlock is made by a goroutine that holds the mutex,
\* and a goroutine at its return, or between calls, holds none.
DeadlockFreedom ==
    /\ \A g, h \in Procs : ~(WaitsFor(g, h) /\ WaitsFor(h, g))
    /\ \A g \in Procs :
          /\ Instr(g)[1] \in {"Lock", "RLock"} =>
                \A m \in Mutexes :
                    Holds(g, m) => LockRank(m) < LockRank(Instr(g)[2])
          /\ Instr(g)[1] = "Unlock" => mutexes[Instr(g)[2]].w = g
          /\ Instr(g)[1] = "RUnlock" => g \in mutexes[Instr(g)[2]].r
          /\ Instr(g)[1] = "none" => \A m \in Mutexes : ~Holds(g, m)

\* Goroutine 1 holds tm.mutex for its sweep and waits for rl.mutex, which
\* goroutine 2 holds while it is not itself waiting.
SweepWaitsForRateLimiter ==
    /\ Holds(1, "tm")
    /\ WaitsFor(1, 2)
    /\ Instr(1)[2] = "rl"
    /\ ~Blocked(2)

(***************************************************************************)
(* Properties of the write-back.                                           *)
(***************************************************************************)
\* Every PersistCredentials goroutine started so far has returned.
WriteBackFinished == \A w \in WriterIds : writers[w].pc \in {"none", "done"}

\* C12: when a refresh returned a secret other than the stored one for a
\* credential of the array-format file, then once the write-backs started
\* have returned the file parses to the array whose entry for the credential
\* carries the secret the refresh returned, and no <path>.tmp remains.
FileWriteBackResult ==
    WriteBackFinished =>
        /\ fs.tmp = 0
        /\ \A i \in ConfigIdx :
              (/\ sourceType[i + 1] = "file"
               /\ CacheKey(i) \in DOMAIN cache
               /\ cache[CacheKey(i)].RefreshToken # InitialConfigs[i + 1])
                  => fs.inodes[fs.main] =
                         Marshal([configs EXCEPT ![i + 1] = cache[CacheKey(i)].RefreshToken])

\* C11: when a refresh returned a secret other than the stored one for a
\* credential of the managed store, the write-backs started have, once they
\* have returned, called UpdateToken for that credential's id with the new
\* secret.
StoreWriteBack ==
    \A i \in ConfigIdx :
        (/\ WriteBackFinished
         /\ sourceType[i + 1] = "store"
         /\ CacheKey(i) \in DOMAIN cache
         /\ cache[CacheKey(i)].RefreshToken # InitialConfigs[i + 1])
            => [storeID |-> i, RefreshToken |-> cache[CacheKey(i)].RefreshToken] \in updates

\* C10: under any interleaving of PersistCredentials runs the credential
\* file holds, at every instant, the content it was loaded with or the
\* complete content one of the write-backs marshalled.
WriteBackAtomicity ==
    fs.inodes[fs.main] \in written \cup {Marshal(InitialConfigs)}

====
